---------------------------- MODULE Spec2Model ----------------------------
(***************************************************************************)
(* A model of the gafTeddy animation core: the servo engine                *)
(* (src/src/servo_controller.py), the vocal detector                       *)
(* (src/src/speech_detector.py), the blink scheduler                       *)
(* (src/src/blink_controller.py) and the state machine                     *)
(* (src/src/state_machine.py).                                             *)
(*                                                                         *)
(* Time is an integer number of milliseconds.  Angles are integer degrees. *)
(* Real-valued quantities are fixed-point integers: FS = 10000 for the     *)
(* easing curve, DS = 1000 for the audio features.                         *)
(***************************************************************************)
EXTENDS Integers, Sequences, FiniteSets, TLC

VARIABLES
    now,        \* the wall clock, time.time(), in ms
    servo,      \* SpecServo: the engine whose calls interleave with its worker
    wk,         \* SpecServo: the worker thread's frame (_thread_run locals)
    st,         \* SpecServo: the frame of the set_target_angle call in progress
    ncalls,     \* SpecServo: the number of set_target_angle calls made so far
    servo_ev,   \* history: the last whole call or loop iteration on the engine
    det,        \* the detector's state: hysteresis_state, _last_above_ts
    det_ev,     \* history: the last call made on the detector and what it returned
    mouth,      \* the mouth engine
    eyes,       \* the eyes engine
    blink,      \* the blink scheduler's state and its thread's position
    blink_ev,   \* history: the last step of the blink scheduler's loop
    high_ts,    \* history: the last time the mouth level was above suppress_on
    drop_ts,    \* history: when the mouth level last dropped to suppress_off or below
    sm,         \* the state machine's fields and its loop's next wake-up
    sm_ev,      \* history: the last iteration of the state machine's loop
    mwk,        \* the mouth engine's worker thread
    ewk,        \* the eyes engine's worker thread
    life,       \* SpecLife: the engine's thread control, its workers, the caller
    pwm,        \* SpecLife: the pulse width the PWM sink holds for the pin
    life_ev,    \* history: the last step of start(), stop() or a worker
    subs,       \* SpecSub: the position of run() or stop() among the subsystems
    halt        \* SpecHalt: the tick loop's position, the blinker's flag, history

servoVars == <<servo, wk, st, ncalls, servo_ev>>

detVars == <<det, det_ev>>

blinkVars == <<blink, blink_ev, high_ts, drop_ts>>

jointVars == <<mouth, eyes>>

smVars == <<sm, sm_ev, mwk, ewk>>

lifeVars == <<life, pwm, life_ev>>

vars == <<now, servo, wk, st, ncalls, servo_ev, det, det_ev, mouth, eyes, blink, blink_ev,
          high_ts, drop_ts, sm, sm_ev, mwk, ewk, life, pwm, life_ev, subs, halt>>

-----------------------------------------------------------------------------
(* Arithmetic helpers *)

Abs(x) == IF x < 0 THEN -x ELSE x

Min(a, b) == IF a <= b THEN a ELSE b

Max(a, b) == IF a >= b THEN a ELSE b

\* Python's None for a timestamp or a duration (all real ones are >= 0).
None == -1

\* The clock value at which the program starts (time.time() is an epoch time).
StartTime == 20000

\* Python's round() of the rational num/den (den > 0): to nearest, ties to even.
Round(num, den) ==
    LET q == num \div den
        r == num % den
    IN  IF 2 * r < den THEN q
        ELSE IF 2 * r > den THEN q + 1
        ELSE IF q % 2 = 0 THEN q ELSE q + 1

\* Scale of the fixed-point easing arithmetic.
FS == 10000

\* pi in units of 1/FS.
PiQ == 31416

\* cos(x) for x in [0, pi/2], x and the result in units of 1/FS: the Taylor
\* polynomial to x^8, whose error there is below 3/FS.
CosQ(x) ==
    LET x2 == (x * x) \div FS
        x4 == (x2 * x2) \div FS
        x6 == (x4 * x2) \div FS
        x8 == ((x6 \div 10) * x2) \div (FS \div 10)
    IN  FS - (x2 \div 2) + (x4 \div 24) - (x6 \div 720) + (x8 \div 40320)

\* cos(pi * t), t and the result in units of 1/FS.  The cosine is even and has
\* period 2, and cos(pi t) = -cos(pi (1 - t)) brings t into [0, 1/2].
CosPiQ(tq) ==
    LET u == Abs(tq) % (2 * FS)
        v == IF u > FS THEN 2 * FS - u ELSE u
    IN  IF 2 * v = FS THEN 0
        ELSE IF 2 * v < FS THEN Max(0, Min(FS, CosQ((PiQ * v) \div FS)))
        ELSE -Max(0, Min(FS, CosQ((PiQ * (FS - v)) \div FS)))

-----------------------------------------------------------------------------
(* Servo engine: src/src/servo_controller.py *)

\* ServoController.__init__: the engine as constructed (worker not started).
ServoInit(min_a, max_a, neutral, speed) ==
    [ min_angle         |-> min_a,
      max_angle         |-> max_a,
      angle             |-> neutral,
      target            |-> neutral,
      max_speed         |-> speed,
      move_start_angle  |-> neutral,
      move_target_angle |-> neutral,
      move_start_ts     |-> None,
      move_duration     |-> None ]

\* ServoController.__init__, lines 18-19: the default range and speed.
ServoMinAngle == 0

ServoMaxAngle == 180

ServoMaxSpeed == 180

\* A variant of line 107 in which t stops short of 1.
MoveT_NeverOne(elapsed, duration) ==
    Min(FS - 1, (elapsed * FS) \div duration)

\* Line 107: t = min(1.0, elapsed / max(1e-6, duration)) in units of 1/FS
\* (duration > 0: set_target_angle stores no other).
MoveT(elapsed, duration) ==
    IF elapsed >= duration THEN FS ELSE (elapsed * FS) \div duration

\* Line 110: int(round(s1 + (tgt - s2) * ease)), ease = 0.5 - 0.5*cos(pi*t).
\* s1 and s2 are the two reads of _move_start_angle the expression makes.
EasedAngle(s1, tgt, s2, tq) ==
    LET c == CosPiQ(tq)
    IN  Round(s1 * 2 * FS + (tgt - s2) * (FS - c), 2 * FS)

\* A variant of lines 121-128 without the arrival test of line 123.
VelocityStep_NoArrival(a, g, diff, speed, dt) ==
    IF diff > 0 THEN Round(a * 1000 + speed * dt, 1000)
    ELSE Round(a * 1000 - speed * dt, 1000)

\* Lines 121-128: one velocity-limited step from angle a toward target g with
\* difference diff (read at line 122), max_speed in deg/s and dt in ms.
VelocityStep(a, g, diff, speed, dt) ==
    IF Abs(diff) * 1000 <= speed * dt THEN g
    ELSE IF diff > 0 THEN Round(a * 1000 + speed * dt, 1000)
    ELSE Round(a * 1000 - speed * dt, 1000)

\* The frame of a set_target_angle call that is not in progress.
NoCall == [pc |-> "idle", angle |-> 0, duration |-> None]

\* set_target_angle(angle, duration_s) entered: the frame before line 70.
EnterCall(a, d) == [pc |-> "L70", angle |-> a, duration |-> d]

\* One step of set_target_angle (lines 70-82) on engine s and frame f at clock
\* time t; each step makes at most one write to a field the worker reads.
SetTargetStep(s, f, t) ==
    CASE f.pc = "L70" ->
           [s |-> s,
            f |-> [f EXCEPT !.angle = Max(s.min_angle, Min(s.max_angle, f.angle)),
                            !.pc = IF f.duration # None /\ f.duration > 0
                                   THEN "L73" ELSE "L81"]]
      [] f.pc = "L73" ->
           [s |-> [s EXCEPT !.move_start_angle = s.angle], f |-> [f EXCEPT !.pc = "L74"]]
      [] f.pc = "L74" ->
           [s |-> [s EXCEPT !.move_target_angle = f.angle], f |-> [f EXCEPT !.pc = "L75"]]
      [] f.pc = "L75" ->
           [s |-> [s EXCEPT !.move_start_ts = t], f |-> [f EXCEPT !.pc = "L76"]]
      [] f.pc = "L76" ->
           [s |-> [s EXCEPT !.move_duration = f.duration], f |-> [f EXCEPT !.pc = "L78"]]
      [] f.pc = "L78" ->
           [s |-> [s EXCEPT !.target = f.angle], f |-> NoCall]
      [] f.pc = "L81" ->
           [s |-> [s EXCEPT !.move_duration = None], f |-> [f EXCEPT !.pc = "L82"]]
      [] f.pc = "L82" ->
           [s |-> [s EXCEPT !.target = f.angle], f |-> NoCall]

\* A whole set_target_angle call with no other thread running in between.
RECURSIVE RunCall(_, _, _)
RunCall(s, f, t) ==
    IF f.pc = "idle" THEN s
    ELSE LET r == SetTargetStep(s, f, t) IN RunCall(r.s, r.f, t)

\* A variant of set_target_angle that stores the angle argument unclamped.
set_target_angle_Unclamped(s, a, d, t) ==
    [RunCall(s, EnterCall(a, d), t) EXCEPT !.target = a]

set_target_angle(s, a, d, t) == RunCall(s, EnterCall(a, d), t)

\* The worker asleep until wake, its last loop iteration begun at prev.
Asleep(prev, wake) ==
    [pc |-> "sleep", prev |-> prev, wake |-> wake, now |-> 0, dt |-> 0,
     elapsed |-> 0, tq |-> 0, s1 |-> 0, tgt |-> 0, new_angle |-> 0, diff |-> 0]

\* time.sleep(0.02) at line 131 and time.sleep(0.05) at line 134, in ms.
WorkerSleepMs == 20

ErrorSleepMs == 50

\* One step of an iteration of _thread_run (lines 99-134) on engine s and
\* worker frame w at clock time t; each step makes at most one read or write
\* of a field that set_target_angle writes.
WorkerStep(s, w, t) ==
    CASE w.pc = "sleep" ->     \* lines 99-102: the loop test, now, dt, prev
           [s |-> s,
            w |-> [w EXCEPT !.pc = "L104", !.now = t, !.dt = t - w.prev, !.prev = t]]
      [] w.pc = "L104" ->      \* if self._move_duration ...
           [s |-> s,
            w |-> [w EXCEPT !.pc = IF s.move_duration # None THEN "L104b" ELSE "L120"]]
      [] w.pc = "L104b" ->     \* ... and self._move_start_ts is not None
           [s |-> s,
            w |-> [w EXCEPT !.pc = IF s.move_start_ts # None THEN "L106" ELSE "L120"]]
      [] w.pc = "L106" ->      \* elapsed = now - self._move_start_ts
           [s |-> s,
            w |-> IF s.move_start_ts = None THEN [w EXCEPT !.pc = "L134"]
                  ELSE [w EXCEPT !.pc = "L107", !.elapsed = w.now - s.move_start_ts]]
      [] w.pc = "L107" ->      \* t = min(1.0, elapsed / max(1e-6, self._move_duration))
           [s |-> s,
            w |-> IF s.move_duration = None THEN [w EXCEPT !.pc = "L134"]
                  ELSE [w EXCEPT !.pc = "L110a", !.tq = MoveT(w.elapsed, s.move_duration)]]
      [] w.pc = "L110a" ->     \* first read of self._move_start_angle
           [s |-> s, w |-> [w EXCEPT !.pc = "L110b", !.s1 = s.move_start_angle]]
      [] w.pc = "L110b" ->     \* read of self._move_target_angle
           [s |-> s, w |-> [w EXCEPT !.pc = "L110c", !.tgt = s.move_target_angle]]
      [] w.pc = "L110c" ->     \* second read of self._move_start_angle
           [s |-> s,
            w |-> [w EXCEPT !.pc = "L111",
                            !.new_angle = EasedAngle(w.s1, w.tgt, s.move_start_angle, w.tq)]]
      [] w.pc = "L111" ->      \* self.angle = new_angle; _apply_pulse; if t >= 1.0
           [s |-> [s EXCEPT !.angle = w.new_angle],
            w |-> [w EXCEPT !.pc = IF w.tq >= FS THEN "L115" ELSE "L131"]]
      [] w.pc = "L115" ->      \* self._move_duration = None
           [s |-> [s EXCEPT !.move_duration = None], w |-> [w EXCEPT !.pc = "L116"]]
      [] w.pc = "L116" ->      \* self._move_start_ts = None
           [s |-> [s EXCEPT !.move_start_ts = None], w |-> [w EXCEPT !.pc = "L117"]]
      [] w.pc = "L117" ->      \* read of self._move_target_angle for line 117
           [s |-> s, w |-> [w EXCEPT !.pc = "L117w", !.tgt = s.move_target_angle]]
      [] w.pc = "L117w" ->     \* self.target = ...
           [s |-> [s EXCEPT !.target = w.tgt], w |-> [w EXCEPT !.pc = "L131"]]
      [] w.pc = "L120" ->      \* if self.angle != self.target
           [s |-> s,
            w |-> [w EXCEPT !.pc = IF s.angle # s.target THEN "L122" ELSE "L131"]]
      [] w.pc = "L122" ->      \* diff = self.target - self.angle
           [s |-> s, w |-> [w EXCEPT !.pc = "L123", !.diff = s.target - s.angle]]
      [] w.pc = "L123" ->      \* lines 123-129: self.angle = self.target, or the step
           [s |-> [s EXCEPT !.angle = VelocityStep(s.angle, s.target, w.diff,
                                                   s.max_speed, w.dt)],
            w |-> [w EXCEPT !.pc = "L131"]]
      [] w.pc = "L131" ->      \* time.sleep(0.02)
           [s |-> s, w |-> Asleep(w.prev, t + WorkerSleepMs)]
      [] w.pc = "L134" ->      \* except: log, time.sleep(0.05)
           [s |-> s, w |-> Asleep(w.prev, t + ErrorSleepMs)]

\* A whole loop iteration of the worker with no other thread running in between.
RECURSIVE RunTick(_, _, _)
RunTick(s, w, t) ==
    LET r == WorkerStep(s, w, t)
    IN  IF r.w.pc = "sleep" THEN r ELSE RunTick(r.s, r.w, t)

\* The history record before any whole call or loop iteration on the engine.
NoServoOp ==
    [op |-> "none", now |-> 0, a |-> 0, d |-> None, dt |-> 0,
     pre |-> ServoInit(ServoMinAngle, ServoMaxAngle, ServoMinAngle, ServoMaxSpeed)]

\* ServoController.__init__, line 19: pulse_min_ms and pulse_max_ms, in us.
PulseMinUs == 500

PulseMaxUs == 2500

\* _angle_to_pulse, lines 61-63: the pulse width in us, truncated.  (With the
\* default range 0..180 the floating-point result truncates to this integer
\* for every integer angle of the range; for an angle below min_angle whose
\* pulse is still positive, int() of line 63 is the floor taken here.)
AngleToPulse(s, angle) ==
    PulseMinUs
      + ((angle - s.min_angle) * (PulseMaxUs - PulseMinUs))
          \div Max(1, s.max_angle - s.min_angle)

\* The pigpio handle self._pi: "none" when the import or the connection failed
\* (lines 41-48: the engine simulates), "open" when connected, "released" once
\* stop() has called self._pi.stop() (line 148; the attribute keeps the handle).
PiStates == {"none", "open", "released"}

\* _apply_pulse, lines 86-95, seen from the sink that holds pulse width held
\* for the pin: an open handle delivers the pulse; a released one raises and the
\* error is swallowed (lines 90-92); without a handle the pulse is only logged.
ApplyPulse(h, held, pulse) == IF h = "open" THEN pulse ELSE held

\* A variant of EmitOutcome that lets the sink's fault out of _apply_pulse.
EmitOutcome_Propagates(h, ok) ==
    [raised |-> h # "none" /\ ~ok, delivered |-> h = "open" /\ ok]

\* _apply_pulse, lines 87-95, seen from its caller, when the call of line 89 on
\* handle h succeeds (ok) or raises an Exception: the except clause of lines
\* 90-92 keeps the fault in; without a handle no call is made.
EmitOutcome(h, ok) == [raised |-> FALSE, delivered |-> h = "open" /\ ok]

\* One step of an iteration of _thread_run when _apply_pulse has outcome e: an
\* exception leaving line 112 or line 129 skips the rest of the try block and
\* reaches the except clause of lines 132-134.
EmitStep(s, w, t, e) ==
    LET r == WorkerStep(s, w, t)
    IN  IF w.pc \in {"L111", "L123"} /\ e.raised
        THEN [s |-> r.s, w |-> [r.w EXCEPT !.pc = "L134"]]
        ELSE r

\* A whole loop iteration of the worker whose _apply_pulse has outcome e.
RECURSIVE RunTickEmit(_, _, _, _)
RunTickEmit(s, w, t, e) ==
    LET r == EmitStep(s, w, t, e)
    IN  IF r.w.pc = "sleep" THEN r ELSE RunTickEmit(r.s, r.w, t, e)

\* stop(), line 141: join(timeout=0.5), in ms.
JoinTimeoutMs == 500

\* Lines 36-48: thread control as constructed, with handle h.  thread is the
\* index in workers of the Thread self._thread refers to, 0 for None; workers
\* holds the frame of every thread start() has created, its pc "exited" once
\* _thread_run has returned; pc and deadline are the frame of a stop() call.
LifeInit(h) ==
    [stop_event |-> FALSE, thread |-> 0, pi |-> h, workers |-> <<>>,
     pc |-> "idle", deadline |-> 0]

\* self._thread and self._thread.is_alive(), line 52.
ThreadAlive(l) == l.thread # 0 /\ l.workers[l.thread].pc # "exited"

\* start(), lines 52-56.
start(l, t) ==
    IF ThreadAlive(l) THEN l
    ELSE [l EXCEPT !.stop_event = FALSE,
                   !.workers = Append(@, Asleep(t, t)),
                   !.thread = Len(l.workers) + 1]

\* The history record before any step of start(), stop() or a worker: the last
\* step, the worker that took it, whether it emitted a pulse and which, the
\* number of start() and stop() calls made, whether stop() has returned since
\* the last start(), whether the last start() came after a start() and then a
\* stop() that returned, whether a join has timed out, the workers that have
\* run a loop iteration since the last start(), and for each worker the number
\* of loop bodies it has run since stop() was first called while it was alive
\* (None: stop() has not been; the count stops at 2).  SpecEmit records three
\* more: whether the sink faulted on the last step's pulse, the number of
\* faults so far, and whether the last step completed an eased move.
NoLifeOp ==
    [op |-> "none", worker |-> 0, emitted |-> FALSE, pulse |-> None, starts |-> 0,
     stops |-> 0, stopped |-> FALSE, restarted |-> FALSE, timed_out |-> FALSE,
     ticked |-> {}, late |-> <<>>, fault |-> FALSE, faults |-> 0, done |-> FALSE]

\* The order of the calls in start_subsystems (lines 79-91).
StartOrder == <<"mouth", "eyes", "audio", "bt", "blinker">>

\* The start order backwards.
StopOrder_ExactReverse == <<"blinker", "bt", "audio", "eyes", "mouth">>

\* The order of the calls in stop_subsystems (lines 95-114).
StopOrder == <<"blinker", "audio", "bt", "mouth", "eyes">>

\* The start calls of start_subsystems that sit in a try block (lines 79-86):
\* an error of theirs is logged and the next call is made.
StartGuarded == {"mouth", "eyes"}

\* run() and stop() not yet called: no subsystem call made.
SubInit == [pc |-> "init", k |-> 0, log |-> <<>>]

\* BlinkController.stop(), line 51: join(timeout=0.5), in ms.
BlinkJoinTimeoutMs == 500

\* The threads around run() and stop() as constructed: the loop of run() not
\* entered (tick), BlinkController._running (line 36), the blinker join of a
\* stop() call (join, deadline).  The rest is history: the time stop_subsystems
\* made its first call, whether an iteration of the loop of run() ran after
\* that, whether the blinker commanded the eyes after its stop() had returned,
\* and after the eyes engine's stop() had.
HaltInit ==
    [tick |-> "idle", blink_running |-> FALSE, join |-> "none", deadline |-> 0,
     stop_ts |-> None, tick_late |-> FALSE, blink_late |-> FALSE,
     blink_after_eyes |-> FALSE]

-----------------------------------------------------------------------------
(* Vocal detector: src/src/speech_detector.py *)

\* Scale of the fixed-point audio features: a feature x is the integer x * DS.
DS == 1000

\* SpeechDetector.__init__: the configuration defaults (lines 29-36).
SampleRate == 44100

GoertzelFreqs == <<300, 500, 1000>>

WeightRms == 600

WeightCentroid == 300

WeightZcr == 100

RmsThreshold == 20

ZcrThreshold == 50

OnTh == 450

OffHoldMs == 200

\* SpeechDetector.__init__, lines 37-38.
DetInit == [hysteresis_state |-> FALSE, last_above_ts |-> 0]

\* The all-zero result of lines 47, 51 and 56.
ZeroInfo == [vocalness |-> 0, rms |-> 0, zcr |-> 0, centroid |-> 0]

\* The floor of the square root of n >= 0, by bisection on [lo, hi].
RECURSIVE SqrtIn(_, _, _)
SqrtIn(n, lo, hi) ==
    IF lo >= hi THEN lo
    ELSE LET mid == (lo + hi + 1) \div 2
         IN  IF mid * mid <= n THEN SqrtIn(n, mid, hi) ELSE SqrtIn(n, lo, mid - 1)

Sqrt(n) == SqrtIn(n, 0, 40000)

\* One "<h" item of struct.unpack: two bytes, little-endian, signed.
Int16(lo, hi) ==
    LET u == lo + 256 * hi IN IF u >= 32768 THEN u - 65536 ELSE u

\* A variant of UnpackOk that drops a trailing odd byte instead of failing.
UnpackOk_DropsOddByte(raw) == Len(raw) \div 2 > 0

\* Lines 49-56: whether struct.unpack("<" + "h"*n, raw) succeeds with n >= 1:
\* it raises struct.error unless the buffer holds exactly 2n bytes.
UnpackOk(raw) ==
    LET n == Len(raw) \div 2 IN n > 0 /\ Len(raw) = 2 * n

\* Lines 54 and 57: the samples s/32768.0 of a buffer that unpacks, times DS.
Samples(raw) ==
    [i \in 1..(Len(raw) \div 2) |->
        Round(Int16(raw[2 * i - 1], raw[2 * i]) * DS, 32768)]

RECURSIVE SumSq(_, _)
SumSq(xs, i) == IF i > Len(xs) THEN 0 ELSE xs[i] * xs[i] + SumSq(xs, i + 1)

\* Line 59: rms = sqrt(sum(s*s) / max(1, len(samples))).
Rms(xs) == Sqrt(SumSq(xs, 1) \div Max(1, Len(xs)))

\* Line 61: signs = [1 if s > 0 else 0 ...].
Sign(x) == IF x > 0 THEN 1 ELSE 0

RECURSIVE SignChanges(_, _)
SignChanges(xs, i) ==
    IF i > Len(xs) THEN 0
    ELSE Abs(Sign(xs[i]) - Sign(xs[i - 1])) + SignChanges(xs, i + 1)

\* Line 62: zcr = (sign changes) / max(1, len(signs) - 1).
Zcr(xs) == (SignChanges(xs, 2) * DS) \div Max(1, Len(xs) - 1)

\* Lines 15-16: coeff = 2 cos(2 pi freq / sample_rate), in units of 1/FS.
GoertzelCoeff(freq) == 2 * CosPiQ((2 * freq * FS) \div SampleRate)

\* Lines 17-21: the recurrence s = x + coeff*s_prev - s_prev2 from sample i on;
\* the result is <<s_prev, s_prev2>>.
RECURSIVE GoertzelRun(_, _, _, _, _)
GoertzelRun(xs, i, coeff, s_prev, s_prev2) ==
    IF i > Len(xs) THEN <<s_prev, s_prev2>>
    ELSE GoertzelRun(xs, i + 1, coeff,
                     xs[i] + Round(coeff * s_prev, FS) - s_prev2, s_prev)

\* Line 22: sqrt(s_prev2^2 + s_prev^2 - coeff*s_prev*s_prev2), from the pair r
\* the recurrence ends with.
GoertzelPower(r, coeff) ==
    Sqrt(Max(0, r[2] * r[2] + r[1] * r[1] - Round(coeff * r[1], FS) * r[2]))

\* Lines 17-22 for a given coeff.
GoertzelMagnitude(xs, coeff) == GoertzelPower(GoertzelRun(xs, 1, coeff, 0, 0), coeff)

\* goertzel(samples, sample_rate, freq), lines 11-23: the magnitude, times DS.
goertzel(xs, freq) == GoertzelMagnitude(xs, GoertzelCoeff(freq))

RECURSIVE SumMags(_, _)
SumMags(xs, k) ==
    IF k > Len(GoertzelFreqs) THEN 0
    ELSE goertzel(xs, GoertzelFreqs[k]) + SumMags(xs, k + 1)

RECURSIVE SumFreqMags(_, _)
SumFreqMags(xs, k) ==
    IF k > Len(GoertzelFreqs) THEN 0
    ELSE GoertzelFreqs[k] * goertzel(xs, GoertzelFreqs[k]) + SumFreqMags(xs, k + 1)

RECURSIVE MaxFreq(_)
MaxFreq(k) ==
    IF k > Len(GoertzelFreqs) THEN 0 ELSE Max(GoertzelFreqs[k], MaxFreq(k + 1))

\* Lines 72-74: the centroid from sum(mags) and sum(f * mag), over max(freqs).
CentroidOf(s_mags, s_fmags) ==
    IF s_mags > 0 THEN ((s_fmags \div s_mags) * DS) \div MaxFreq(1) ELSE 0

\* Lines 65-74: the centroid of the Goertzel magnitudes of the samples.
Centroid(xs) == CentroidOf(SumMags(xs, 1), SumFreqMags(xs, 1))

\* Lines 77-78 and 102: min(1.0, x / max(1e-6, threshold * 4)).
Term(x, threshold) == Min(DS, (x * DS) \div (4 * threshold))

\* Lines 76-81: the weighted sum of the three terms, clamped to [0, 1].
Vocalness(rms, zcr, centroid) ==
    Max(0, Min(DS, (WeightRms * Term(rms, RmsThreshold)
                    + WeightCentroid * centroid
                    + WeightZcr * Term(zcr, ZcrThreshold)) \div DS))

\* Line 83: the returned dict.
Info(rms, zcr, centroid) ==
    [vocalness |-> Vocalness(rms, zcr, centroid), rms |-> rms, zcr |-> zcr,
     centroid |-> centroid]

\* Lines 57-83: the features of the samples xs and their vocalness.
Features(xs) == Info(Rms(xs), Zcr(xs), Centroid(xs))

\* compute_vocalness(raw_bytes), lines 41-83.  It assigns no field of self.
ComputeVocalness(raw) ==
    IF Len(raw) = 0 THEN ZeroInfo
    ELSE IF ~UnpackOk(raw) THEN ZeroInfo
    ELSE Features(Samples(raw))

\* The byte values of the frames of the model: 0x00, 0x40 and 0xC0 (as high
\* bytes: samples near 0, +0.5 and -0.5).
FrameBytes == {0, 64, 192}

\* Frames are byte strings of length 0..MaxFrameLen.
MaxFrameLen == 4

Frames == UNION {[1..n -> FrameBytes] : n \in 0..MaxFrameLen}

\* compute_vocalness on the frames of the model, tabulated (the @@ makes the
\* function an explicit table, computed once per frame).
VocalnessOf == [raw \in Frames |-> ComputeVocalness(raw)] @@ <<>>

compute_vocalness(raw) == VocalnessOf[raw]

\* Lines 102-108: the candidate test on the features of a frame.
Candidate(info) ==
    LET zcr_norm    == Term(info.zcr, ZcrThreshold)
        voicedness  == (DS - zcr_norm) > 550
        centroid_ok == info.centroid > 450
        rms_ok      == info.rms > RmsThreshold
        vocal_ok    == info.vocalness >= OnTh
    IN  rms_ok /\ vocal_ok /\ (centroid_ok \/ voicedness)

\* A variant of HoldExpired with a strict comparison.
HoldExpired_Strict(t, last_above_ts) == t - last_above_ts > OffHoldMs

\* Line 116: (now - self._last_above_ts) * 1000.0 >= self.off_hold_ms.
HoldExpired(t, last_above_ts) == t - last_above_ts >= OffHoldMs

\* A variant of Hysteresis whose candidate branch does not record the time.
Hysteresis_NoStamp(d, info, t) ==
    IF Candidate(info)
    THEN [d EXCEPT !.hysteresis_state = TRUE]
    ELSE IF t - d.last_above_ts >= OffHoldMs
         THEN [d EXCEPT !.hysteresis_state = FALSE]
         ELSE d

\* Lines 110-117: the detector's state after is_vocal sees a frame with these
\* features at clock time t.
Hysteresis(d, info, t) ==
    IF Candidate(info)
    THEN [hysteresis_state |-> TRUE, last_above_ts |-> t]
    ELSE IF HoldExpired(t, d.last_above_ts)
         THEN [d EXCEPT !.hysteresis_state = FALSE]
         ELSE d

\* A variant of is_vocal that returns the state as it was before the call.
is_vocal_ReturnsOld(d, raw, t) ==
    LET info == compute_vocalness(raw)
    IN  [det |-> Hysteresis(d, info, t), vocal |-> d.hysteresis_state, info |-> info]

\* Line 119: the returned dict, d2 being the state after lines 110-117.
IsVocalResult(d2, info) == [det |-> d2, vocal |-> d2.hysteresis_state, info |-> info]

\* is_vocal(raw_bytes), lines 94-119: the new state and the returned dict.
is_vocal(d, raw, t) ==
    LET info == compute_vocalness(raw)
    IN  IsVocalResult(Hysteresis(d, info, t), info)

\* The history record before any call on the detector.  cand_ts is the time of
\* the most recent frame that was a candidate (None: there was none yet).
NoDetCall ==
    [op |-> "none", frame_len |-> 0, now |-> 0, pre |-> DetInit, cand_ts |-> None,
     vocal |-> FALSE, info |-> ZeroInfo]

-----------------------------------------------------------------------------
(* Blink scheduler: src/src/blink_controller.py *)

\* BlinkController.__init__: the defaults of lines 15-19 (levels times DS).
BlinkDurationMs == 160

SuppressOn == 250

SuppressOff == 100

SuppressOffMs == 200

\* Line 39: _last_mouth_low_ts = 0.0, which also stands for "unset".
Unset == 0

\* BlinkController.__init__: the scheduler as constructed, its thread not started.
BlinkInit == [last_mouth_low_ts |-> Unset, pc |-> "idle", wake |-> 0]

\* Values of random.expovariate(...) at line 107, in ms: a short wait and a long
\* one.
BlinkWaits == {500, 4000}

\* start() followed by lines 105-108: the loop sleeping through its first wait w
\* from clock time t.
BlinkStarted(w, t) == [BlinkInit EXCEPT !.pc = "wait", !.wake = t + w]

\* _mouth_level(), lines 53-68: the mouth angle as a level in [0, 1], times DS.
mouth_level(m) ==
    IF m.max_angle <= m.min_angle THEN 0
    ELSE Max(0, Min(DS, ((m.angle - m.min_angle) * DS) \div (m.max_angle - m.min_angle)))

\* Lines 90-97 of a variant of _can_blink_now that never resets the timestamp.
LowTsAfter_NoReset(low_ts, lvl, t) ==
    IF lvl <= SuppressOff /\ low_ts = Unset THEN t ELSE low_ts

\* Lines 90-97 of _can_blink_now: _last_mouth_low_ts after the gate has seen
\* level lvl at clock time t.
LowTsAfter(low_ts, lvl, t) ==
    IF lvl <= SuppressOff
    THEN (IF low_ts = Unset THEN t ELSE low_ts)
    ELSE (IF lvl > SuppressOn THEN Unset ELSE low_ts)

\* Lines 98-102 of _can_blink_now: the answer, given the updated timestamp.
can_blink_now(low_ts, t) ==
    IF low_ts = Unset THEN FALSE ELSE t - low_ts >= SuppressOffMs

\* Line 73: getattr(self.eyes, "neutral", self.eyes.max_angle).  ServoController
\* stores no attribute named neutral, so the default is taken.
OpenAngle(e) == e.max_angle

\* Line 78: max(0.01, self.duration / 1.5), in ms.
BlinkOpenMs == Max(10, Round(BlinkDurationMs * 2, 3))

\* TeddyStateMachine.__init__, lines 28-41: the mouth and eyes engines with the
\* configuration defaults, eyes constructed at the neutral angle n.
MouthInit == ServoInit(20, 120, 20, 180)

EyesInit(n) == ServoInit(10, 90, n, 90)

\* The history record before the blink scheduler has run.
NoBlinkStep ==
    [op |-> "none", now |-> 0, level |-> 0, allowed |-> FALSE, pre_low_ts |-> Unset,
     pre_eyes |-> EyesInit(10), high_ts |-> None, drop_ts |-> None]

-----------------------------------------------------------------------------
(* State machine: src/src/state_machine.py *)

\* TeddyStateMachine.__init__, lines 66-68 and 74, and the literals of run():
\* the configuration defaults, in ms.
MinOpenMs == 160

IdleTimeoutMs == 10000

TickMs == 40

StatusWriteIntervalMs == 1000

MouthOpenMs == 50

MouthCloseMs == 80

EyeCloseMs == 2500

EyeOpenMs == 200

\* Line 164: the eyes count as closed within this many degrees of max_angle.
SleepToleranceDeg == 3

\* TeddyStateMachine.__init__, lines 61-75: the fields as constructed; wake is
\* the time the loop of run() next leaves time.sleep(tick_s).
SMInit ==
    [state |-> "INIT", running |-> FALSE, last_vocal_ts |-> 0,
     last_status_write_ts |-> 0, last_vocalness |-> 0, wake |-> 0]

\* A variant of LastVocalAfter that never records the time.
LastVocalAfter_Stale(last_vocal_ts, vocal, t) == last_vocal_ts

\* Lines 146-149: last_vocal_ts after the detector's answer at clock time t.
LastVocalAfter(last_vocal_ts, vocal, t) == IF vocal THEN t ELSE last_vocal_ts

\* A variant of MouthAfter that closes the mouth as soon as min_open_time_ms
\* has passed, not only after it.
MouthAfter_ClosesAtHold(mo, vocal, lv, t) ==
    IF vocal THEN set_target_angle(mo, mo.max_angle, MouthOpenMs, t)
    ELSE IF t - lv >= MinOpenMs THEN set_target_angle(mo, mo.min_angle, MouthCloseMs, t)
    ELSE mo

\* Lines 147-157: the mouth engine after the tick's mouth command, if any; lv
\* is last_vocal_ts as line 149 left it.
MouthAfter(mo, vocal, lv, t) ==
    IF vocal THEN set_target_angle(mo, mo.max_angle, MouthOpenMs, t)
    ELSE IF t - lv > MinOpenMs THEN set_target_angle(mo, mo.min_angle, MouthCloseMs, t)
    ELSE mo

\* Line 160: (now - self.last_vocal_ts) > self.idle_timeout.
Idle(t, lv) == t - lv > IdleTimeoutMs

\* Lines 161-162 and 171: the command the tick gives the eyes engine.
EyesCommand(ey, idle) ==
    IF idle THEN [angle |-> ey.max_angle, duration |-> EyeCloseMs]
    ELSE [angle |-> ey.min_angle, duration |-> EyeOpenMs]

\* A variant of EyesClosed that accepts any angle of the range.
EyesClosed_Anywhere(ey) == Abs(ey.angle - ey.max_angle) <= ey.max_angle - ey.min_angle

\* Line 164: abs(self.eyes.angle - self.eyes.max_angle) <= 3.
EyesClosed(ey) == Abs(ey.angle - ey.max_angle) <= SleepToleranceDeg

\* Lines 160-174: the value the tick assigns to state ("none": no assignment).
Assigned(idle, closed) ==
    IF idle THEN (IF closed THEN "SLEEP" ELSE "none") ELSE "RUNNING"

\* Lines 177-179: _last_status_write_ts after the tick.
StatusTsAfter(last_write_ts, t) ==
    IF t - last_write_ts >= StatusWriteIntervalMs THEN t ELSE last_write_ts

\* The rest of an iteration of the loop of run(), lines 143-181, once is_vocal
\* has answered vocal with that vocalness at clock time t: the fields and the
\* two engines after it, with what the iteration saw and did.
Tick(m, mo, ey, vocal, vocalness, t) ==
    LET lv   == LastVocalAfter(m.last_vocal_ts, vocal, t)
        idle == Idle(t, lv)
        cmd  == EyesCommand(ey, idle)
        ey2  == set_target_angle(ey, cmd.angle, cmd.duration, t)
        asg  == Assigned(idle, EyesClosed(ey2))
    IN  [sm    |-> [state |-> IF asg = "none" THEN m.state ELSE asg,
                    running |-> m.running,
                    last_vocal_ts |-> lv,
                    last_status_write_ts |-> StatusTsAfter(m.last_status_write_ts, t),
                    last_vocalness |-> vocalness,
                    wake |-> t + TickMs],
         mouth |-> MouthAfter(mo, vocal, lv, t),
         eyes  |-> ey2,
         idle |-> idle, cmd |-> cmd, assigned |-> asg, eyes_angle |-> ey2.angle]

\* Line 177: the telemetry write is due at clock time t.
StatusDue(last_write_ts, t) == t - last_write_ts >= StatusWriteIntervalMs

\* A variant of WriteStatus that lets the failure of the write out.
WriteStatus_Propagates(ok) == [raised |-> ~ok]

\* _write_status, lines 116-130: what its caller sees when building and writing
\* the status succeeds (ok) or raises an Exception; the except clause of line
\* 129 keeps the failure in.
WriteStatus(ok) == [raised |-> FALSE]

\* Lines 177-183: the fields after an iteration that began with m0 and
\* computed m1, once the write, if due, had outcome w.  An exception leaving
\* line 178 skips lines 179-181 and reaches stop() in the finally clause.
AfterWrite(m0, m1, t, w) ==
    IF StatusDue(m0.last_status_write_ts, t) /\ w.raised
    THEN [m1 EXCEPT !.last_status_write_ts = m0.last_status_write_ts,
                    !.running = FALSE, !.wake = m0.wake]
    ELSE m1

\* What an iteration at clock time t did about telemetry.
WriteMark(last_write_ts, t, ok) ==
    IF ~StatusDue(last_write_ts, t) THEN "none" ELSE IF ok THEN "ok" ELSE "failed"

\* The history record before the loop of run() has run.  idle_since is the time
\* of the first tick of the current run of idle ticks (None: the last tick was
\* not idle); loud is the number of candidate frames fed so far; write is what
\* the last tick did about telemetry.
NoTick ==
    [op |-> "none", now |-> 0, vocal |-> FALSE, prev_state |-> "INIT",
     assigned |-> "none", eyes_angle |-> 0, cmd |-> [angle |-> 0, duration |-> None],
     idle_since |-> None, loud |-> 0, write |-> "none"]

\* The parts of the state a specification does not use, as constructed.
ParkedServo ==
    /\ servo = ServoInit(ServoMinAngle, ServoMaxAngle, ServoMinAngle, ServoMaxSpeed)
    /\ wk = Asleep(StartTime, StartTime)
    /\ st = NoCall
    /\ ncalls = 0
    /\ servo_ev = NoServoOp

ParkedDetector == det = DetInit /\ det_ev = NoDetCall

ParkedJoints == mouth = MouthInit /\ eyes = EyesInit(10)

ParkedBlinker ==
    blink = BlinkInit /\ blink_ev = NoBlinkStep /\ high_ts = None /\ drop_ts = None

ParkedSM ==
    /\ sm = SMInit
    /\ sm_ev = NoTick
    /\ mwk = Asleep(StartTime, StartTime)
    /\ ewk = Asleep(StartTime, StartTime)

ParkedLife == life = LifeInit("none") /\ pwm = None /\ life_ev = NoLifeOp

ParkedSub == subs = SubInit

ParkedHalt == halt = HaltInit

-----------------------------------------------------------------------------
(* SpecServo: one engine, its worker, and one thread calling set_target_angle, *)
(* interleaved at the grain of single field reads and writes.                  *)

\* Arguments the calling thread passes: angles inside and outside the range,
\* and durations (None: no duration given).
CmdAngles == {-20, 90, 200}

CmdDurations == {None, 40}

\* The clock advances in steps of ClockStepMs for ServoHorizon steps.
ClockStepMs == 20

ServoHorizon == 3

\* The calling thread makes at most MaxCalls calls.
MaxCalls == 2

InitServo ==
    /\ now = StartTime
    /\ \E n \in {ServoMinAngle, ServoMaxAngle} :
          servo = ServoInit(ServoMinAngle, ServoMaxAngle, n, ServoMaxSpeed)
    /\ wk = Asleep(StartTime, StartTime)    \* start(): the worker begins at once
    /\ st = NoCall
    /\ ncalls = 0
    /\ servo_ev = NoServoOp
    /\ ParkedDetector
    /\ ParkedJoints
    /\ ParkedBlinker
    /\ ParkedSM
    /\ ParkedLife
    /\ ParkedSub
    /\ ParkedHalt

\* Another thread enters set_target_angle(a, d).
CallSetTarget ==
    /\ st.pc = "idle"
    /\ ncalls < MaxCalls
    /\ \E a \in CmdAngles, d \in CmdDurations : st' = EnterCall(a, d)
    /\ ncalls' = ncalls + 1
    /\ UNCHANGED <<now, servo, wk, servo_ev, detVars, jointVars, blinkVars, smVars, lifeVars, subs, halt>>

\* The calling thread runs one step of set_target_angle.
SetTargetRun ==
    /\ st.pc # "idle"
    /\ LET r == SetTargetStep(servo, st, now)
       IN  servo' = r.s /\ st' = r.f
    /\ UNCHANGED <<now, wk, ncalls, servo_ev, detVars, jointVars, blinkVars, smVars, lifeVars, subs, halt>>

\* The worker runs one step of its loop (it wakes no earlier than wk.wake).
WorkerRun ==
    /\ wk.pc = "sleep" => now >= wk.wake
    /\ LET r == WorkerStep(servo, wk, now)
       IN  servo' = r.s /\ wk' = r.w
    /\ UNCHANGED <<now, st, ncalls, servo_ev, detVars, jointVars, blinkVars, smVars, lifeVars, subs, halt>>

\* Time passes.
ClockTick ==
    /\ now < StartTime + ServoHorizon * ClockStepMs
    /\ now' = now + ClockStepMs
    /\ UNCHANGED <<servoVars, detVars, jointVars, blinkVars, smVars, lifeVars, subs, halt>>

NextServo == CallSetTarget \/ SetTargetRun \/ WorkerRun \/ ClockTick

SpecServo == InitServo /\ [][NextServo]_vars

\* C1 (as claimed): the angle of the engine is within [min_angle, max_angle]
\* in every reachable state, under every interleaving of set_target_angle
\* calls with the worker's ticks.
C1_AngleInRange ==
    servo.min_angle <= servo.angle /\ servo.angle <= servo.max_angle

\* C32 (as claimed): every pulse the worker emits (line 112 after the
\* assignment of line 111, line 129 after that of lines 124-128: the pulse of
\* the angle just stored) lies in [pulse_min_ms*1000, pulse_max_ms*1000] us,
\* and the pulse is monotone non-decreasing in the angle over the range.
C32_PulseInRange ==
    [][(wk.pc \in {"L111", "L123"} /\ wk'.pc # wk.pc)
         => /\ PulseMinUs <= AngleToPulse(servo', servo'.angle)
            /\ AngleToPulse(servo', servo'.angle) <= PulseMaxUs
            /\ \A a \in servo.min_angle .. servo.max_angle - 1 :
                 AngleToPulse(servo, a) <= AngleToPulse(servo, a + 1)]_vars

-----------------------------------------------------------------------------
(* SpecMove: one engine and its worker, each call of set_target_angle and    *)
(* each iteration of the worker's loop taken as a whole.                      *)

\* Values of max_speed_deg_per_s the engine is constructed with.
MoveSpeeds == {10, 180}

\* Arguments of set_target_angle: angles inside and outside the range, and
\* durations in ms (None: no duration given; zero; negative; positive).
MoveAngles == {-20, 90, 200}

MoveDurations == {None, 0, -40, 40, 100}

\* The clock advances in steps of MoveStepMs for MoveHorizon steps, and at most
\* MoveMaxCalls calls are made.
MoveStepMs == 20

MoveHorizon == 8

MoveMaxCalls == 2

InitMove ==
    /\ now = StartTime
    /\ \E n \in {ServoMinAngle, ServoMaxAngle}, v \in MoveSpeeds :
          servo = ServoInit(ServoMinAngle, ServoMaxAngle, n, v)
    /\ wk = Asleep(StartTime, StartTime)    \* start(): the worker begins at once
    /\ st = NoCall
    /\ ncalls = 0
    /\ servo_ev = NoServoOp
    /\ ParkedDetector
    /\ ParkedJoints
    /\ ParkedBlinker
    /\ ParkedSM
    /\ ParkedLife
    /\ ParkedSub
    /\ ParkedHalt

\* set_target_angle(a, d), lines 70-82, called between two loop iterations.
MoveCall ==
    /\ ncalls < MoveMaxCalls
    /\ \E a \in MoveAngles, d \in MoveDurations :
         /\ servo' = set_target_angle(servo, a, d, now)
         /\ servo_ev' = [op |-> "call", now |-> now, a |-> a, d |-> d, dt |-> 0,
                          pre |-> servo]
    /\ ncalls' = ncalls + 1
    /\ UNCHANGED <<now, wk, st, detVars, jointVars, blinkVars, smVars, lifeVars, subs, halt>>

\* One iteration of _thread_run's loop, lines 99-131, no earlier than the end of
\* the sleep of the iteration before.
MoveTick ==
    /\ now >= wk.wake
    /\ LET r == RunTick(servo, wk, now)
       IN  servo' = r.s /\ wk' = r.w
    /\ servo_ev' = [op |-> "tick", now |-> now, a |-> 0, d |-> None,
                     dt |-> now - wk.prev, pre |-> servo]
    /\ UNCHANGED <<now, st, ncalls, detVars, jointVars, blinkVars, smVars, lifeVars, subs, halt>>

\* Time passes.
MoveClock ==
    /\ now < StartTime + MoveHorizon * MoveStepMs
    /\ now' = now + MoveStepMs
    /\ UNCHANGED <<servoVars, detVars, jointVars, blinkVars, smVars, lifeVars, subs, halt>>

NextMove == MoveCall \/ MoveTick \/ MoveClock

SpecMove == InitMove /\ [][NextMove]_vars

\* The angle argument a brought into the range of engine s (line 70).
ClampedTo(s, a) == Max(s.min_angle, Min(s.max_angle, a))

\* An eased move is active in engine s: the test of line 104.
EasedMoveActive(s) == s.move_duration # None /\ s.move_start_ts # None

\* C12: set_target_angle(a, d) sets target to a clamped to [min_angle,
\* max_angle] and leaves angle alone; with d > 0 it installs the eased move
\* (start = the current angle, target = the clamped angle, start_ts = now,
\* duration = d); with d absent, zero or negative it leaves no eased move
\* active, and a loop iteration that finds none active moves the angle by the
\* velocity-limited step toward target (or leaves it, when it is at target).
C12_SetTargetAngle ==
    /\ servo_ev.op = "call" =>
         /\ servo.target = ClampedTo(servo_ev.pre, servo_ev.a)
         /\ servo.angle = servo_ev.pre.angle
         /\ IF servo_ev.d # None /\ servo_ev.d > 0
            THEN /\ servo.move_start_angle = servo_ev.pre.angle
                 /\ servo.move_target_angle = ClampedTo(servo_ev.pre, servo_ev.a)
                 /\ servo.move_start_ts = servo_ev.now
                 /\ servo.move_duration = servo_ev.d
            ELSE ~EasedMoveActive(servo)
    /\ (servo_ev.op = "tick" /\ ~EasedMoveActive(servo_ev.pre)) =>
         /\ servo.target = servo_ev.pre.target
         /\ servo.angle =
              IF servo_ev.pre.angle = servo_ev.pre.target THEN servo_ev.pre.angle
              ELSE VelocityStep(servo_ev.pre.angle, servo_ev.pre.target,
                                servo_ev.pre.target - servo_ev.pre.angle,
                                servo_ev.pre.max_speed, servo_ev.dt)

\* C12's case: a call with a zero or negative duration and an angle above the
\* range, made while an eased move was active.
C12_Witness ==
    /\ servo_ev.op = "call"
    /\ servo_ev.d \in {0, -40}
    /\ servo_ev.a > servo_ev.pre.max_angle
    /\ EasedMoveActive(servo_ev.pre)
    /\ servo_ev.pre.angle # servo_ev.pre.max_angle

\* C13: a loop iteration that finds an eased move active (installed by the last
\* call, none made since) sets angle to the move's start angle when it runs at
\* start_ts; when it runs at or after start_ts + duration it sets angle to the
\* move's target, which is within the range, clears the move and leaves target
\* equal to the move's target.
C13_EasedMoveEnds ==
    (servo_ev.op = "tick" /\ EasedMoveActive(servo_ev.pre)) =>
       /\ servo_ev.now = servo_ev.pre.move_start_ts =>
             servo.angle = servo_ev.pre.move_start_angle
       /\ servo_ev.now >= servo_ev.pre.move_start_ts + servo_ev.pre.move_duration =>
             /\ servo.angle = servo_ev.pre.move_target_angle
             /\ servo.min_angle <= servo.angle /\ servo.angle <= servo.max_angle
             /\ ~EasedMoveActive(servo)
             /\ servo.move_duration = None /\ servo.move_start_ts = None
             /\ servo.target = servo_ev.pre.move_target_angle

\* C13's case: the iteration that ends a move of 100 ms between two different
\* angles, the angle still short of the move's target before it.
C13_Witness ==
    /\ servo_ev.op = "tick"
    /\ EasedMoveActive(servo_ev.pre)
    /\ servo_ev.pre.move_duration = 100
    /\ servo_ev.now >= servo_ev.pre.move_start_ts + servo_ev.pre.move_duration
    /\ servo_ev.pre.move_start_angle # servo_ev.pre.move_target_angle
    /\ servo_ev.pre.angle # servo_ev.pre.move_target_angle
    /\ servo.angle = servo_ev.pre.move_target_angle

\* C14: a loop iteration that takes the velocity-limited branch with measured
\* interval dt changes angle by at most max_speed * dt + 1 degrees, and leaves
\* it between its old value and target.
C14_VelocityStepBounded ==
    (servo_ev.op = "tick" /\ ~EasedMoveActive(servo_ev.pre)) =>
       /\ Abs(servo.angle - servo_ev.pre.angle) * 1000
             <= servo_ev.pre.max_speed * servo_ev.dt + 1000
       /\ Min(servo_ev.pre.angle, servo_ev.pre.target) <= servo.angle
       /\ servo.angle <= Max(servo_ev.pre.angle, servo_ev.pre.target)

\* C14's case: a velocity-limited iteration that moves the angle by more than
\* max_speed * dt (the rounding), and one more would bring it past the target.
C14_Witness ==
    /\ servo_ev.op = "tick"
    /\ ~EasedMoveActive(servo_ev.pre)
    /\ servo_ev.dt > 0
    /\ Abs(servo.angle - servo_ev.pre.angle) * 1000 > servo_ev.pre.max_speed * servo_ev.dt
    /\ servo.angle # servo.target
    /\ Abs(servo.target - servo.angle) * 1000 < servo_ev.pre.max_speed * servo_ev.dt

\* C15 (as claimed, for one iteration): a velocity-limited iteration that finds
\* angle away from target, a whole sleep of the loop or more after the
\* iteration before it, brings angle nearer to target.  (The iteration reads
\* nothing but angle, target, max_speed and dt: one that leaves angle where it
\* was does so again whenever dt is the same, and the angle never arrives.)
C15_VelocityStepAdvances ==
    (/\ servo_ev.op = "tick"
     /\ ~EasedMoveActive(servo_ev.pre)
     /\ servo_ev.pre.angle # servo_ev.pre.target
     /\ servo_ev.dt >= WorkerSleepMs)
      => Abs(servo.target - servo.angle) < Abs(servo_ev.pre.target - servo_ev.pre.angle)

-----------------------------------------------------------------------------
(* SpecTwice: one engine, its worker, and one thread that calls              *)
(* set_target_angle twice with the same arguments, interleaved at the grain  *)
(* of single field reads and writes.                                         *)

\* The arguments of the two calls.
TwiceAngles == {90}

TwiceDurations == {None, 100}

\* The clock advances in steps of ClockStepMs for TwiceHorizon steps.
TwiceHorizon == 4

InitTwice ==
    /\ now = StartTime
    /\ servo = ServoInit(ServoMinAngle, ServoMaxAngle, ServoMinAngle, ServoMaxSpeed)
    /\ wk = Asleep(StartTime, StartTime)    \* start(): the worker begins at once
    /\ st = NoCall
    /\ ncalls = 0
    /\ servo_ev = NoServoOp
    /\ ParkedDetector
    /\ ParkedJoints
    /\ ParkedBlinker
    /\ ParkedSM
    /\ ParkedLife
    /\ ParkedSub
    /\ ParkedHalt

\* The calling thread enters set_target_angle(a, d): any arguments the first
\* time, the same ones the second time.
TwiceCall ==
    /\ st.pc = "idle"
    /\ ncalls < 2
    /\ \E a \in TwiceAngles, d \in TwiceDurations :
         /\ ncalls > 0 => (a = servo_ev.a /\ d = servo_ev.d)
         /\ st' = EnterCall(a, d)
         /\ servo_ev' = [op |-> "call", now |-> now, a |-> a, d |-> d, dt |-> 0,
                          pre |-> servo]
    /\ ncalls' = ncalls + 1
    /\ UNCHANGED <<now, servo, wk, detVars, jointVars, blinkVars, smVars, lifeVars, subs, halt>>

\* Time passes.
TwiceClock ==
    /\ now < StartTime + TwiceHorizon * ClockStepMs
    /\ now' = now + ClockStepMs
    /\ UNCHANGED <<servoVars, detVars, jointVars, blinkVars, smVars, lifeVars, subs, halt>>

NextTwice == TwiceCall \/ SetTargetRun \/ WorkerRun \/ TwiceClock

SpecTwice == InitTwice /\ [][NextTwice]_vars

\* C16 (as claimed): once the second of two calls set_target_angle(a, d) with
\* the same a and d has returned, no write the worker makes to angle takes it
\* farther from a clamped to the range.
C16_MonotoneTrajectory ==
    [][(ncalls = 2 /\ st.pc = "idle") =>
         Abs(ClampedTo(servo, servo_ev.a) - servo'.angle)
           <= Abs(ClampedTo(servo, servo_ev.a) - servo.angle)]_vars

-----------------------------------------------------------------------------
(* SpecLast: one engine, its worker, and one thread that calls               *)
(* set_target_angle twice, interleaved at the grain of single field reads    *)
(* and writes; the arguments of the last call are kept.                      *)

\* The arguments of the calls.
LastAngles == {90, 200}

LastDurations == {None, 40}

\* The clock advances in steps of ClockStepMs for LastHorizon steps.
LastHorizon == 3

InitLast ==
    /\ now = StartTime
    /\ servo = ServoInit(ServoMinAngle, ServoMaxAngle, ServoMinAngle, ServoMaxSpeed)
    /\ wk = Asleep(StartTime, StartTime)    \* start(): the worker begins at once
    /\ st = NoCall
    /\ ncalls = 0
    /\ servo_ev = NoServoOp
    /\ ParkedDetector
    /\ ParkedJoints
    /\ ParkedBlinker
    /\ ParkedSM
    /\ ParkedLife
    /\ ParkedSub
    /\ ParkedHalt

\* The calling thread enters set_target_angle(a, d), its earlier call returned.
LastCall ==
    /\ st.pc = "idle"
    /\ ncalls < 2
    /\ \E a \in LastAngles, d \in LastDurations :
         /\ st' = EnterCall(a, d)
         /\ servo_ev' = [op |-> "call", now |-> now, a |-> a, d |-> d, dt |-> 0,
                          pre |-> servo]
    /\ ncalls' = ncalls + 1
    /\ UNCHANGED <<now, servo, wk, detVars, jointVars, blinkVars, smVars, lifeVars, subs, halt>>

\* Time passes.
LastClock ==
    /\ now < StartTime + LastHorizon * ClockStepMs
    /\ now' = now + ClockStepMs
    /\ UNCHANGED <<servoVars, detVars, jointVars, blinkVars, smVars, lifeVars, subs, halt>>

NextLast == LastCall \/ SetTargetRun \/ WorkerRun \/ LastClock

SpecLast == InitLast /\ [][NextLast]_vars

\* C22 (as claimed): once the second call set_target_angle(b, ...) has
\* returned and the worker has ended the loop iteration it was in, the engine
\* heads for b clamped to the range: an eased move, if one is active, has that
\* target, and otherwise target is that angle.
C22_LastCommandWins ==
    (ncalls = 2 /\ st.pc = "idle" /\ wk.pc = "sleep") =>
       IF EasedMoveActive(servo)
       THEN servo.move_target_angle = ClampedTo(servo, servo_ev.a)
       ELSE servo.target = ClampedTo(servo, servo_ev.a)

\* C23 (as claimed): the two reads of the move's start angle that a loop
\* iteration makes at line 110 give the value one call stored; and the worker
\* does not clear (line 115) a move that a returned call installed after the
\* move whose end the iteration is handling (the start timestamp the
\* iteration used is the installed one).
C23_MovePublishedAtomically ==
    [][/\ (wk.pc = "L110c" /\ wk'.pc = "L111") => wk.s1 = servo.move_start_angle
       /\ (/\ wk.pc = "L115" /\ wk'.pc = "L116"
           /\ st.pc = "idle"
           /\ servo.move_duration # None)
            => servo.move_start_ts = wk.now - wk.elapsed]_vars

-----------------------------------------------------------------------------
(* SpecLife: one engine through start() and stop() calls made by one thread, *)
(* with the workers those calls create.  A worker's loop iteration is two    *)
(* steps (the loop test, then the body); stop() is four (the event, the      *)
(* join, the zero pulse, the release of the handle).                         *)

\* Angles the calling thread commands (with no duration).
LifeAngles == {0, 90}

\* The calling thread makes at most MaxStarts start() and MaxStops stop() calls.
MaxStarts == 2

MaxStops == 2

\* The clock advances in steps of LifeStepMs for LifeHorizon steps.
LifeStepMs == 250

LifeHorizon == 4

InitLife ==
    /\ now = StartTime
    /\ servo = ServoInit(ServoMinAngle, ServoMaxAngle, ServoMinAngle, ServoMaxSpeed)
    /\ wk = Asleep(StartTime, StartTime)
    /\ st = NoCall
    /\ ncalls = 0
    /\ servo_ev = NoServoOp
    /\ \E h \in {"none", "open"} : life = LifeInit(h)
    /\ pwm = None
    /\ life_ev = NoLifeOp
    /\ ParkedDetector
    /\ ParkedJoints
    /\ ParkedBlinker
    /\ ParkedSM
    /\ ParkedSub
    /\ ParkedHalt

\* start(), lines 50-57.
LifeStart ==
    /\ life.pc = "idle"
    /\ life_ev.starts < MaxStarts
    /\ life' = start(life, now)
    /\ life_ev' = [life_ev EXCEPT !.op = "start", !.worker = 0, !.emitted = FALSE,
                                  !.starts = @ + 1, !.stopped = FALSE, !.ticked = {},
                                  !.restarted = life_ev.stopped /\ life_ev.starts > 0,
                                  !.late = IF ThreadAlive(life) THEN @
                                           ELSE Append(@, None)]
    /\ UNCHANGED <<now, pwm, servoVars, detVars, jointVars, blinkVars, smVars, subs, halt>>

\* stop(), line 138, up to the join of line 141.
LifeStopEvent ==
    /\ life.pc = "idle"
    /\ life_ev.stops < MaxStops
    /\ life' = [life EXCEPT !.stop_event = TRUE, !.pc = "join",
                            !.deadline = now + JoinTimeoutMs]
    /\ life_ev' = [life_ev EXCEPT !.op = "stop_event", !.worker = 0,
                                  !.emitted = FALSE, !.stops = @ + 1,
                                  !.late = [i \in DOMAIN @ |->
                                              IF life.workers[i].pc # "exited" /\ @[i] = None
                                              THEN 0 ELSE @[i]]]
    /\ UNCHANGED <<now, pwm, servoVars, detVars, jointVars, blinkVars, smVars, subs, halt>>

\* stop(), lines 140-144: the join returns when the thread has exited or the
\* timeout has passed (at once when there is no thread); self._thread = None.
LifeStopJoin ==
    /\ life.pc = "join"
    /\ ~ThreadAlive(life) \/ now >= life.deadline
    /\ life' = [life EXCEPT !.thread = 0, !.pc = "L147"]
    /\ life_ev' = [life_ev EXCEPT !.op = "stop_join", !.worker = 0, !.emitted = FALSE,
                                  !.timed_out = @ \/ ThreadAlive(life)]
    /\ UNCHANGED <<now, pwm, servoVars, detVars, jointVars, blinkVars, smVars, subs, halt>>

\* stop(), lines 145-147: with a handle, set_servo_pulsewidth(pin, 0); without
\* one, or when the call raises, stop() returns (lines 149-151).
LifeStopPulse ==
    /\ life.pc = "L147"
    /\ pwm' = ApplyPulse(life.pi, pwm, 0)
    /\ life' = [life EXCEPT !.pc = IF life.pi = "open" THEN "L148" ELSE "idle"]
    /\ life_ev' = [life_ev EXCEPT !.op = "stop_pulse", !.worker = 0, !.emitted = FALSE,
                                  !.stopped = life.pi # "open"]
    /\ UNCHANGED <<now, servoVars, detVars, jointVars, blinkVars, smVars, subs, halt>>

\* stop(), line 148: self._pi.stop(), and the return.
LifeStopRelease ==
    /\ life.pc = "L148"
    /\ life' = [life EXCEPT !.pi = "released", !.pc = "idle"]
    /\ life_ev' = [life_ev EXCEPT !.op = "stop_release", !.worker = 0,
                                  !.emitted = FALSE, !.stopped = TRUE]
    /\ UNCHANGED <<now, pwm, servoVars, detVars, jointVars, blinkVars, smVars, subs, halt>>

\* The calling thread commands another angle: set_target_angle(a).
LifeSetTarget ==
    /\ life.pc = "idle"
    /\ \E a \in LifeAngles \ {servo.target} :
         servo' = set_target_angle(servo, a, None, now)
    /\ life_ev' = [life_ev EXCEPT !.op = "set", !.worker = 0, !.emitted = FALSE]
    /\ UNCHANGED <<now, wk, st, ncalls, servo_ev, life, pwm, detVars, jointVars,
                   blinkVars, smVars, subs, halt>>

\* A worker, lines 99-102: the loop test, which ends the thread when the event
\* is set, then now, dt and prev.
LifeWorkerWake ==
    /\ \E i \in DOMAIN life.workers :
         /\ life.workers[i].pc = "sleep"
         /\ now >= life.workers[i].wake
         /\ life' = [life EXCEPT !.workers[i] =
                         IF life.stop_event THEN [@ EXCEPT !.pc = "exited"]
                         ELSE WorkerStep(servo, @, now).w]
         /\ life_ev' = [life_ev EXCEPT
                           !.op = IF life.stop_event THEN "exit" ELSE "wake",
                           !.worker = i, !.emitted = FALSE]
    /\ UNCHANGED <<now, pwm, servoVars, detVars, jointVars, blinkVars, smVars, subs, halt>>

\* A worker, lines 103-131: the motion step, the pulse when the step emits one
\* (line 112 in an eased move, line 129 when angle was away from target), and
\* the sleep.
LifeWorkerBody ==
    /\ \E i \in DOMAIN life.workers :
         /\ life.workers[i].pc = "L104"
         /\ LET r     == RunTick(servo, life.workers[i], now)
                emits == EasedMoveActive(servo) \/ servo.angle # servo.target
                pulse == AngleToPulse(r.s, r.s.angle)
            IN  /\ servo' = r.s
                /\ life' = [life EXCEPT !.workers[i] = r.w]
                /\ pwm' = IF emits THEN ApplyPulse(life.pi, pwm, pulse) ELSE pwm
                /\ life_ev' = [life_ev EXCEPT !.op = "tick", !.worker = i,
                                              !.emitted = emits,
                                              !.pulse = IF emits THEN pulse ELSE None,
                                              !.ticked = @ \cup {i},
                                              !.late[i] = IF @ = None THEN None
                                                          ELSE Min(2, @ + 1)]
    /\ UNCHANGED <<now, wk, st, ncalls, servo_ev, detVars, jointVars, blinkVars,
                   smVars, subs, halt>>

\* Time passes.
LifeClock ==
    /\ now < StartTime + LifeHorizon * LifeStepMs
    /\ now' = now + LifeStepMs
    /\ UNCHANGED <<servoVars, lifeVars, detVars, jointVars, blinkVars, smVars, subs, halt>>

NextLife ==
    \/ LifeStart
    \/ LifeStopEvent
    \/ LifeStopJoin
    \/ LifeStopPulse
    \/ LifeStopRelease
    \/ LifeSetTarget
    \/ LifeWorkerWake
    \/ LifeWorkerBody
    \/ LifeClock

SpecLife == InitLife /\ [][NextLife]_vars

\* C17 (as claimed): since the last start() call, at most one worker thread of
\* the engine has run iterations of its loop.
C17_OneWorkerTicking == Cardinality(life_ev.ticked) <= 1

\* C18 (as claimed): on an engine with a pigpio handle, after start(), a stop()
\* whose join did not time out, and start() again, the pulse that an iteration
\* of the worker emits when it moves the angle is delivered: the sink holds it
\* for the pin.
C18_PulsesResume ==
    (/\ life_ev.op = "tick"
     /\ life_ev.emitted
     /\ servo.angle # ServoMinAngle
     /\ life.pi # "none"
     /\ life_ev.restarted
     /\ ~life_ev.timed_out
     /\ life.pc = "idle")
      => pwm = life_ev.pulse

\* C19 (as claimed): on an engine with a pigpio handle, once stop() has
\* returned and until the next start(), the sink holds pulse 0 for the pin.
C19_ZeroAfterStop ==
    (life_ev.stopped /\ life.pc = "idle" /\ life.pi # "none") => pwm = 0

\* C28 (as claimed): a worker that was alive when stop() was called runs the
\* body of its loop at most once more.
C28_WorkerEndsAfterStop ==
    \A i \in DOMAIN life_ev.late : life_ev.late[i] = None \/ life_ev.late[i] <= 1

-----------------------------------------------------------------------------
(* SpecEmit: one engine with a pigpio handle whose sink may fault on any      *)
(* pulse; each call of set_target_angle and each loop body of the worker is   *)
(* taken as a whole.                                                          *)

\* Arguments of set_target_angle: angles, and durations in ms.
EmitAngles == {0, 90}

EmitDurations == {None, 40}

\* The calling thread makes at most EmitMaxCalls calls; the sink faults at most
\* MaxFaults times; the clock advances in steps of EmitStepMs for EmitHorizon
\* steps.
EmitMaxCalls == 1

MaxFaults == 1

EmitStepMs == 20

EmitHorizon == 4

InitEmit ==
    /\ now = StartTime
    /\ servo = ServoInit(ServoMinAngle, ServoMaxAngle, ServoMinAngle, ServoMaxSpeed)
    /\ wk = Asleep(StartTime, StartTime)
    /\ st = NoCall
    /\ ncalls = 0
    /\ servo_ev = NoServoOp
    /\ life = LifeInit("open")
    /\ pwm = None
    /\ life_ev = NoLifeOp
    /\ ParkedDetector
    /\ ParkedJoints
    /\ ParkedBlinker
    /\ ParkedSM
    /\ ParkedSub
    /\ ParkedHalt

\* set_target_angle(a, d), lines 70-83.
EmitSetTarget ==
    /\ life.pc = "idle"
    /\ ncalls < EmitMaxCalls
    /\ \E a \in EmitAngles, d \in EmitDurations :
         servo' = set_target_angle(servo, a, d, now)
    /\ ncalls' = ncalls + 1
    /\ life_ev' = [life_ev EXCEPT !.op = "set", !.worker = 0, !.emitted = FALSE,
                                  !.fault = FALSE, !.done = FALSE]
    /\ UNCHANGED <<now, wk, st, servo_ev, life, pwm, detVars, jointVars,
                   blinkVars, smVars, subs, halt>>

\* A worker, lines 103-134: the motion step with its pulse (line 112 in an
\* eased move, line 129 when angle was away from target), which the sink takes
\* or faults on, and the sleep.
EmitWorkerBody ==
    /\ \E i \in DOMAIN life.workers :
         /\ life.workers[i].pc = "L104"
         /\ \E ok \in BOOLEAN :
              LET emits == EasedMoveActive(servo) \/ servo.angle # servo.target
                  e     == EmitOutcome(life.pi, ok)
                  r     == RunTickEmit(servo, life.workers[i], now, e)
                  pulse == AngleToPulse(r.s, r.s.angle)
                  fault == emits /\ ~ok
              IN  /\ ~ok => (emits /\ life.pi = "open" /\ life_ev.faults < MaxFaults)
                  /\ servo' = r.s
                  /\ life' = [life EXCEPT !.workers[i] = r.w]
                  /\ pwm' = IF emits /\ e.delivered THEN pulse ELSE pwm
                  /\ life_ev' = [life_ev EXCEPT
                                    !.op = "tick", !.worker = i, !.emitted = emits,
                                    !.pulse = IF emits THEN pulse ELSE None,
                                    !.ticked = @ \cup {i},
                                    !.fault = fault,
                                    !.faults = IF fault THEN @ + 1 ELSE @,
                                    !.done = EasedMoveActive(servo)
                                               /\ ~EasedMoveActive(r.s)]
    /\ UNCHANGED <<now, wk, st, ncalls, servo_ev, detVars, jointVars, blinkVars,
                   smVars, subs, halt>>

\* Time passes.
EmitClock ==
    /\ now < StartTime + EmitHorizon * EmitStepMs
    /\ now' = now + EmitStepMs
    /\ UNCHANGED <<servoVars, lifeVars, detVars, jointVars, blinkVars, smVars, subs, halt>>

NextEmit ==
    \/ LifeStart
    \/ EmitSetTarget
    \/ LifeWorkerWake
    \/ EmitWorkerBody
    \/ EmitClock

SpecEmit == InitEmit /\ [][NextEmit]_vars

\* C31: when the sink faults on the pulse of a loop iteration of the worker,
\* the worker does not end and sleeps the 0.02 s of a normal iteration, the
\* engine's fields are those of the same iteration with no fault (the angle
\* update is kept, and an eased move that reached its end is cleared with
\* angle and target at its target), and the sink keeps the pulse it held.
C31_EmitFaultSwallowed ==
    [][life_ev'.faults > life_ev.faults =>
         LET i == life_ev'.worker
         IN  /\ life'.workers[i].pc = "sleep"
             /\ life'.workers[i].wake = now + 20
             /\ servo' = RunTick(servo, life.workers[i], now).s
             /\ (/\ EasedMoveActive(servo)
                 /\ life.workers[i].now - servo.move_start_ts >= servo.move_duration)
                  => /\ servo'.move_duration = None
                     /\ servo'.move_start_ts = None
                     /\ servo'.angle = servo.move_target_angle
                     /\ servo'.target = servo.move_target_angle
             /\ pwm' = pwm]_vars

\* C31's case: the sink has faulted on the pulse of the iteration that
\* completed an eased move, and the worker sleeps towards its next iteration.
C31_Witness ==
    /\ life_ev.op = "tick"
    /\ life_ev.fault
    /\ life_ev.done
    /\ servo.angle = 90
    /\ life.workers[life_ev.worker].pc = "sleep"

-----------------------------------------------------------------------------
(* SpecDet: the detector alone, fed frames of PCM bytes at arbitrary times. *)

\* The clock advances in steps of DetStepMs for DetHorizon steps.
DetStepMs == 100

DetHorizon == 4

InitDet ==
    /\ now = StartTime
    /\ det = DetInit
    /\ det_ev = NoDetCall
    /\ ParkedServo
    /\ ParkedJoints
    /\ ParkedBlinker
    /\ ParkedSM
    /\ ParkedLife
    /\ ParkedSub
    /\ ParkedHalt

\* A caller runs is_vocal(frame).
IsVocalCall ==
    /\ \E raw \in Frames :
         LET r == is_vocal(det, raw, now)
         IN  /\ det' = r.det
             /\ det_ev' = [op |-> "is_vocal", frame_len |-> Len(raw), now |-> now, pre |-> det,
                           cand_ts |-> IF Candidate(r.info) THEN now ELSE det_ev.cand_ts,
                           vocal |-> r.vocal, info |-> r.info]
    /\ UNCHANGED <<now, servoVars, jointVars, blinkVars, smVars, lifeVars, subs, halt>>

\* A caller runs compute_vocalness(frame) on its own.
ComputeVocalnessCall ==
    /\ \E raw \in Frames :
         det_ev' = [op |-> "compute_vocalness", frame_len |-> Len(raw), now |-> now, pre |-> det,
                    cand_ts |-> det_ev.cand_ts, vocal |-> FALSE,
                    info |-> compute_vocalness(raw)]
    /\ UNCHANGED <<now, det, servoVars, jointVars, blinkVars, smVars, lifeVars, subs, halt>>

\* Time passes.
DetClockTick ==
    /\ now < StartTime + DetHorizon * DetStepMs
    /\ now' = now + DetStepMs
    /\ UNCHANGED <<detVars, servoVars, jointVars, blinkVars, smVars, lifeVars, subs, halt>>

NextDet == IsVocalCall \/ ComputeVocalnessCall \/ DetClockTick

SpecDet == InitDet /\ [][NextDet]_vars

\* The length of a frame compute_vocalness cannot unpack: zero, or odd.
Malformed(len) == len = 0 \/ len % 2 = 1

\* C5: hysteresis_state goes from true to false only in an is_vocal call whose
\* frame is not a candidate and that is made at least off_hold_ms after the most
\* recent candidate frame; every is_vocal call made less than off_hold_ms after
\* a candidate frame returns vocal = true.
C5_ClearOnlyAfterHold ==
    /\ (det_ev.pre.hysteresis_state /\ ~det.hysteresis_state)
          => /\ det_ev.op = "is_vocal"
             /\ ~Candidate(det_ev.info)
             /\ det_ev.cand_ts # None
             /\ det_ev.now - det_ev.cand_ts >= OffHoldMs
    /\ (det_ev.op = "is_vocal" /\ det_ev.cand_ts # None
            /\ det_ev.now - det_ev.cand_ts < OffHoldMs)
          => det_ev.vocal

\* C5's case: a call cleared the state, and the call before it, made less than
\* off_hold_ms after a candidate frame, had left it set.
C5_Witness ==
    /\ det_ev.op = "is_vocal"
    /\ det_ev.pre.hysteresis_state
    /\ ~det.hysteresis_state
    /\ det_ev.now - det_ev.cand_ts > OffHoldMs

\* C6: an is_vocal call on a non-candidate frame made at least off_hold_ms after
\* the most recent candidate frame returns vocal = false (the first such call and
\* every later one, until the next candidate frame).
C6_FalseAfterHold ==
    (det_ev.op = "is_vocal" /\ ~Candidate(det_ev.info) /\ det_ev.cand_ts # None
        /\ det_ev.now - det_ev.cand_ts >= OffHoldMs)
      => (~det_ev.vocal /\ ~det.hysteresis_state)

\* C6's case: the first non-candidate call exactly off_hold_ms after a candidate
\* frame found the state set and returned false.
C6_Witness ==
    /\ det_ev.op = "is_vocal"
    /\ ~Candidate(det_ev.info)
    /\ det_ev.pre.hysteresis_state
    /\ det_ev.cand_ts # None
    /\ det_ev.now - det_ev.cand_ts = OffHoldMs
    /\ ~det_ev.vocal

\* C7 (as claimed): on an empty or malformed frame is_vocal returns all-zero
\* info and the hysteresis_state from before the call, which it leaves
\* unchanged whatever the time since the last candidate frame.
C7_MalformedLeavesState ==
    (det_ev.op = "is_vocal" /\ Malformed(det_ev.frame_len))
      => /\ det_ev.info = ZeroInfo
         /\ det_ev.vocal = det_ev.pre.hysteresis_state
         /\ det.hysteresis_state = det_ev.pre.hysteresis_state

\* C7 (amended): on an empty or malformed frame is_vocal returns all-zero info
\* and treats the frame as a non-candidate: hysteresis_state is left unchanged
\* when less than off_hold_ms has passed since the last candidate frame and is
\* cleared otherwise, and the returned vocal is the state after that.
C7_MalformedIsNonCandidate ==
    (det_ev.op = "is_vocal" /\ Malformed(det_ev.frame_len))
      => /\ det_ev.info = ZeroInfo
         /\ det_ev.vocal = det.hysteresis_state
         /\ det.hysteresis_state =
               (/\ det_ev.pre.hysteresis_state
                /\ det_ev.cand_ts # None
                /\ det_ev.now - det_ev.cand_ts < OffHoldMs)

\* C7's case: a frame of odd length cleared a state that was set.
C7_Witness ==
    /\ det_ev.op = "is_vocal"
    /\ det_ev.frame_len = 3
    /\ det_ev.pre.hysteresis_state
    /\ ~det.hysteresis_state
    /\ ~det_ev.vocal

\* C8: compute_vocalness returns all-zero features for an empty, a one-byte and
\* any odd-length buffer, a vocalness in [0, 1] for every buffer, and leaves the
\* detector state as it was.
C8_ComputeVocalness ==
    /\ det_ev.op = "compute_vocalness" => det = det_ev.pre
    /\ (det_ev.op = "compute_vocalness" /\ Malformed(det_ev.frame_len))
          => det_ev.info = ZeroInfo
    /\ det_ev.op # "none"
          => (0 <= det_ev.info.vocalness /\ det_ev.info.vocalness <= DS)

\* C8's case: compute_vocalness ran on a three-byte buffer while the state was
\* set.
C8_Witness ==
    /\ det_ev.op = "compute_vocalness"
    /\ det_ev.frame_len = 3
    /\ det_ev.info = ZeroInfo
    /\ det.hysteresis_state

-----------------------------------------------------------------------------
(* SpecBlink: the blink scheduler's loop, with the mouth angle moving freely *)
(* between its attempts.                                                     *)

\* Angles the mouth takes: levels 0, 0.1, 0.2, 0.3 and 1 of its range.
MouthAngles == {20, 30, 40, 50, 120}

\* The clock advances in steps of BlinkStepMs for BlinkHorizon steps.
BlinkStepMs == 100

BlinkHorizon == 12

\* The last time the mouth level was above suppress_on, after a step that brings
\* the mouth to m and the clock to t.
HighTsAfter(m, t) == IF mouth_level(m) > SuppressOn THEN t ELSE high_ts

\* The time of the mouth level's last drop from above suppress_off to
\* suppress_off or below, after a step at time t that takes the mouth from m0 to
\* m1; None while the level is above suppress_off, and before any drop.
DropTsAfter(m0, m1, t) ==
    IF mouth_level(m1) > SuppressOff THEN None
    ELSE IF mouth_level(m0) > SuppressOff THEN t
    ELSE drop_ts

InitBlink ==
    /\ now = StartTime
    /\ \E a \in MouthAngles : mouth = [MouthInit EXCEPT !.angle = a]
    /\ eyes = EyesInit(10)
    /\ \E w \in BlinkWaits : blink = BlinkStarted(w, StartTime)
    /\ blink_ev = NoBlinkStep
    /\ high_ts = IF mouth_level(mouth) > SuppressOn THEN StartTime ELSE None
    /\ drop_ts = None
    /\ ParkedServo
    /\ ParkedDetector
    /\ ParkedSM
    /\ ParkedLife
    /\ ParkedSub
    /\ ParkedHalt

\* _loop, lines 105-114, after the random wait: the gate, and when it allows,
\* the first half of _perform_blink (lines 72-76: the close command, then the
\* sleep); when it does not, the next random wait.
BlinkAttempt ==
    /\ blink.pc = "wait"
    /\ now >= blink.wake
    /\ LET lvl    == mouth_level(mouth)
           low_ts == LowTsAfter(blink.last_mouth_low_ts, lvl, now)
           ok     == can_blink_now(low_ts, now)
       IN  /\ \E w \in BlinkWaits :
                 blink' = [last_mouth_low_ts |-> low_ts,
                           pc |-> IF ok THEN "blinking" ELSE "wait",
                           wake |-> now + (IF ok THEN BlinkDurationMs ELSE w)]
           /\ eyes' = IF ok THEN set_target_angle(eyes, eyes.min_angle, BlinkDurationMs, now)
                      ELSE eyes
           /\ blink_ev' = [op |-> "attempt", now |-> now, level |-> lvl, allowed |-> ok,
                           pre_low_ts |-> blink.last_mouth_low_ts, pre_eyes |-> eyes,
                           high_ts |-> high_ts, drop_ts |-> drop_ts]
    /\ UNCHANGED <<now, mouth, high_ts, drop_ts, servoVars, detVars, smVars, lifeVars, subs, halt>>

\* _perform_blink, line 78: the open command after the sleep, then the next
\* random wait of _loop.
BlinkOpen ==
    /\ blink.pc = "blinking"
    /\ now >= blink.wake
    /\ eyes' = set_target_angle(eyes, OpenAngle(eyes), BlinkOpenMs, now)
    /\ \E w \in BlinkWaits : blink' = [blink EXCEPT !.pc = "wait", !.wake = now + w]
    /\ blink_ev' = [blink_ev EXCEPT !.op = "open", !.now = now]
    /\ UNCHANGED <<now, mouth, high_ts, drop_ts, servoVars, detVars, smVars, lifeVars, subs, halt>>

\* The mouth engine's angle changes.
MouthMove ==
    /\ \E a \in MouthAngles \ {mouth.angle} :
         /\ mouth' = [mouth EXCEPT !.angle = a]
         /\ high_ts' = HighTsAfter(mouth', now)
         /\ drop_ts' = DropTsAfter(mouth, mouth', now)
    /\ UNCHANGED <<now, eyes, blink, blink_ev, servoVars, detVars, smVars, lifeVars, subs, halt>>

\* Time passes.
BlinkClockTick ==
    /\ now < StartTime + BlinkHorizon * BlinkStepMs
    /\ now' = now + BlinkStepMs
    /\ high_ts' = HighTsAfter(mouth, now')
    /\ UNCHANGED <<mouth, eyes, blink, blink_ev, drop_ts, servoVars, detVars, smVars, lifeVars, subs, halt>>

NextBlink == BlinkAttempt \/ BlinkOpen \/ MouthMove \/ BlinkClockTick

SpecBlink == InitBlink /\ [][NextBlink]_vars

\* C9 (as claimed): no blink is commanded at a time t such that the mouth level
\* was above suppress_on at some moment of the suppress_off_ms before t.  (The
\* moment exactly suppress_off_ms before t is left out here: a run that breaks
\* this breaks the claim's closed interval too.)
C9_NoBlinkAfterRecentHigh ==
    (blink_ev.op = "attempt" /\ blink_ev.allowed)
      => (blink_ev.high_ts = None \/ blink_ev.now - blink_ev.high_ts >= SuppressOffMs)

\* C10: a blink attempt made while the mouth level is above suppress_on is
\* skipped: it commands nothing to the eyes engine and leaves last_mouth_low_ts
\* unset.
C10_HighAttemptSkipped ==
    (blink_ev.op = "attempt" /\ blink_ev.level > SuppressOn)
      => /\ ~blink_ev.allowed
         /\ blink.pc = "wait"
         /\ blink.last_mouth_low_ts = Unset
         /\ eyes = blink_ev.pre_eyes

\* C10's case: an attempt with the mouth above suppress_on, made when a low
\* timestamp old enough to allow a blink was recorded.
C10_Witness ==
    /\ blink_ev.op = "attempt"
    /\ blink_ev.level > SuppressOn
    /\ blink_ev.pre_low_ts # Unset
    /\ blink_ev.now - blink_ev.pre_low_ts >= SuppressOffMs
    /\ ~blink_ev.allowed

\* C11 (as claimed): a blink attempt made when the mouth level dropped to
\* suppress_off or below at least suppress_off_ms ago, and has stayed there
\* since, issues a blink.
C11_BlinkAfterLowHeld ==
    (/\ blink_ev.op = "attempt"
     /\ blink_ev.drop_ts # None
     /\ blink_ev.now - blink_ev.drop_ts >= SuppressOffMs)
      => blink_ev.allowed

\* TeddyStateMachine.__init__, line 38: the neutral angle the eyes engine is
\* constructed with (the default, which SpecBlink uses).
EyesNeutral == 10

\* C25 (as claimed): an allowed attempt commands the eyes to min_angle over
\* duration_ms; the command that follows the sleep is set_target_angle(neutral,
\* max(0.01, (duration_ms / 1000) / 1.5)), neutral being the angle the eyes
\* engine was constructed with.
C25_BlinkCommands ==
    /\ (blink_ev.op = "attempt" /\ blink_ev.allowed) =>
         /\ eyes.target = eyes.min_angle
         /\ eyes.move_target_angle = eyes.min_angle
         /\ eyes.move_duration = BlinkDurationMs
         /\ eyes.move_start_ts = blink_ev.now
    /\ blink_ev.op = "open" =>
         /\ eyes.target = EyesNeutral
         /\ eyes.move_target_angle = EyesNeutral
         /\ eyes.move_duration = BlinkOpenMs
         /\ eyes.move_start_ts = blink_ev.now

-----------------------------------------------------------------------------
(* SpecSM: the state machine's loop and the threads it starts (the two       *)
(* engines' workers and the blink scheduler), each step taken at the time    *)
(* its thread wakes.                                                         *)

\* Frames audio.get_levels() hands the loop: two samples of silence, and two
\* samples of 0.5 (a candidate frame).
SMFrames == {<<0, 0, 0, 0>>, <<0, 64, 0, 64>>}

\* Values of servos.eyes.neutral in the configuration: the default (min_angle),
\* and max_angle.
EyesNeutrals == {10, 90}

\* The audio holds at most MaxLoudFrames candidate frames, all of them within
\* LoudWindowMs of the start.
MaxLoudFrames == 1

LoudWindowMs == 120

\* The clock runs for SMHorizonMs after the start, and for LoudHorizonMs when
\* the audio held a candidate frame.
SMHorizonMs == 3000

LoudHorizonMs == 400

InitSM ==
    /\ now = StartTime
    /\ mouth = MouthInit
    /\ \E n \in EyesNeutrals : eyes = EyesInit(n)
    /\ ParkedDetector
    /\ ParkedBlinker
    /\ ParkedSM
    /\ ParkedLife
    /\ ParkedSub
    /\ ParkedHalt
    /\ ParkedServo

\* run(), lines 133-135, with start_subsystems(): the engines' workers and the
\* blink scheduler's loop begin, and the loop of run() is entered.
SMStart ==
    /\ ~sm.running
    /\ sm.state = "INIT"
    /\ sm' = [sm EXCEPT !.running = TRUE, !.state = "RUNNING", !.wake = now]
    /\ mwk' = Asleep(now, now)
    /\ ewk' = Asleep(now, now)
    /\ \E w \in BlinkWaits : blink' = BlinkStarted(w, now)
    /\ UNCHANGED <<now, mouth, eyes, detVars, blink_ev, high_ts, drop_ts, sm_ev, servoVars, lifeVars, subs, halt>>

\* One iteration of the loop of run(), lines 138-181.
SMTick ==
    /\ sm.running
    /\ now >= sm.wake
    /\ \E raw \in SMFrames :
         LET d    == is_vocal(det, raw, now)
             loud == IF Candidate(d.info) THEN 1 ELSE 0
         IN  /\ loud = 1 => (sm_ev.loud < MaxLoudFrames /\ now <= StartTime + LoudWindowMs)
             /\ det' = d.det
             /\ \E ok \in BOOLEAN :
                  LET r    == Tick(sm, mouth, eyes, d.vocal, d.info.vocalness, now)
                      mark == WriteMark(sm.last_status_write_ts, now, ok)
                  IN  /\ mark = "none" => ok
                      /\ sm' = AfterWrite(sm, r.sm, now, WriteStatus(ok))
                      /\ mouth' = r.mouth
                      /\ eyes' = r.eyes
                      /\ sm_ev' = [op |-> "tick", now |-> now, vocal |-> d.vocal,
                                   prev_state |-> sm.state, assigned |-> r.assigned,
                                   eyes_angle |-> r.eyes_angle, cmd |-> r.cmd,
                                   idle_since |-> IF ~r.idle THEN None
                                                  ELSE IF sm_ev.idle_since # None
                                                       THEN sm_ev.idle_since ELSE now,
                                   loud |-> sm_ev.loud + loud,
                                   write |-> mark]
    /\ UNCHANGED <<now, det_ev, blinkVars, mwk, ewk, servoVars, lifeVars, subs, halt>>

\* One iteration of the mouth engine's worker.
MouthWorkerTick ==
    /\ sm.running
    /\ now >= mwk.wake
    /\ LET r == RunTick(mouth, mwk, now) IN mouth' = r.s /\ mwk' = r.w
    /\ UNCHANGED <<now, eyes, detVars, blinkVars, sm, sm_ev, ewk, servoVars, lifeVars, subs, halt>>

\* One iteration of the eyes engine's worker.
EyesWorkerTick ==
    /\ sm.running
    /\ now >= ewk.wake
    /\ LET r == RunTick(eyes, ewk, now) IN eyes' = r.s /\ ewk' = r.w
    /\ UNCHANGED <<now, mouth, detVars, blinkVars, sm, sm_ev, mwk, servoVars, lifeVars, subs, halt>>

\* The earliest time at which a sleeping thread wakes.
NextWake == Min(Min(sm.wake, blink.wake), Min(mwk.wake, ewk.wake))

\* Time passes until the next thread wakes.
SMClock ==
    /\ sm.running
    /\ now < NextWake
    /\ NextWake <= StartTime + SMHorizonMs
    /\ sm_ev.loud > 0 => NextWake <= StartTime + LoudHorizonMs
    /\ now' = NextWake
    /\ UNCHANGED <<jointVars, detVars, blinkVars, smVars, servoVars, lifeVars, subs, halt>>

NextSM ==
    SMStart \/ SMTick \/ MouthWorkerTick \/ EyesWorkerTick \/ BlinkAttempt
        \/ BlinkOpen \/ SMClock

SpecSM == InitSM /\ [][NextSM]_vars

\* What "about" allows past eye_close_duration_s in C2.
CloseSlackMs == 400

\* C2 (as claimed): once the machine has been idle (every tick non-vocal and
\* past idle_timeout_s) for eye_close_duration_s and a little more, it is in
\* SLEEP.
C2_AsleepAfterClose ==
    (sm_ev.op = "tick" /\ sm_ev.idle_since # None
        /\ sm_ev.now - sm_ev.idle_since >= EyeCloseMs + CloseSlackMs)
      => sm.state = "SLEEP"

\* C3: a tick assigns SLEEP only when, at that tick, now - last_vocal_ts is
\* above idle_timeout_s and eyes.angle is within 3 degrees of max_angle; and
\* state is SLEEP only by such an assignment.
C3_SleepOnlyIdleAndClosed ==
    /\ sm_ev.assigned = "SLEEP"
          => /\ sm_ev.now - sm.last_vocal_ts > IdleTimeoutMs
             /\ Abs(sm_ev.eyes_angle - eyes.max_angle) <= SleepToleranceDeg
    /\ sm.state = "SLEEP"
          => \/ sm_ev.assigned = "SLEEP"
             \/ (sm_ev.assigned = "none" /\ sm_ev.prev_state = "SLEEP")

\* C3's case: a tick took the machine from RUNNING to SLEEP.
C3_Witness ==
    /\ sm_ev.op = "tick"
    /\ sm_ev.prev_state = "RUNNING"
    /\ sm_ev.assigned = "SLEEP"
    /\ sm.state = "SLEEP"

\* C4: a tick in which the detector answers vocal sets last_vocal_ts to the
\* tick's now, commands the eyes to min_angle over 0.2 s and leaves state =
\* RUNNING.
C4_VocalTickWakes ==
    (sm_ev.op = "tick" /\ sm_ev.vocal)
      => /\ sm.last_vocal_ts = sm_ev.now
         /\ sm_ev.cmd = [angle |-> eyes.min_angle, duration |-> EyeOpenMs]
         /\ sm_ev.assigned = "RUNNING"
         /\ sm.state = "RUNNING"

\* C4's case: a vocal tick taken while the machine was in SLEEP.
C4_Witness ==
    /\ sm_ev.op = "tick"
    /\ sm_ev.vocal
    /\ sm_ev.prev_state = "SLEEP"
    /\ sm.state = "RUNNING"

\* C29: an iteration of the loop of run() in which the detector answers vocal
\* commands the mouth to max_angle over 0.05 s; a non-vocal one no later than
\* min_open_time_ms (160 ms) after the most recent vocal one commands the
\* mouth nothing; a non-vocal one later than that (or with no vocal one
\* before) commands the mouth to min_angle over 0.08 s.
C29_MouthFollowsVocal ==
    [][sm_ev' # sm_ev =>
         IF sm_ev'.vocal
         THEN /\ mouth'.target = mouth.max_angle
              /\ mouth'.move_target_angle = mouth.max_angle
              /\ mouth'.move_start_angle = mouth.angle
              /\ mouth'.move_start_ts = now
              /\ mouth'.move_duration = 50
         ELSE IF now - sm.last_vocal_ts <= 160
         THEN mouth' = mouth
         ELSE /\ mouth'.target = mouth.min_angle
              /\ mouth'.move_target_angle = mouth.min_angle
              /\ mouth'.move_start_angle = mouth.angle
              /\ mouth'.move_start_ts = now
              /\ mouth'.move_duration = 80]_vars

\* C29's case: a non-vocal iteration exactly min_open_time_ms after the most
\* recent vocal one has left the mouth commanded open.
C29_Witness ==
    /\ sm_ev.op = "tick"
    /\ ~sm_ev.vocal
    /\ sm_ev.now - sm.last_vocal_ts = MinOpenMs
    /\ mouth.target = mouth.max_angle
    /\ mouth.angle # mouth.min_angle

\* C30: an iteration of the loop of run() attempts the telemetry write only
\* when write_interval_s (1 s) has passed since the publish timestamp; when the
\* write fails, the iteration still leaves the loop running and asleep for
\* tick_s, sets the publish timestamp to its clock time, and leaves state,
\* last_vocal_ts and both engines exactly as the iteration's detector answer
\* and commands make them.
C30_FailedWriteDropped ==
    [][sm_ev' # sm_ev =>
         /\ sm_ev'.write # "none" <=> now - sm.last_status_write_ts >= 1000
         /\ sm_ev'.write = "failed" =>
              /\ sm'.running = sm.running
              /\ sm'.wake = now + TickMs
              /\ sm'.last_status_write_ts = now
              /\ sm'.state = (IF sm_ev'.assigned = "none" THEN sm.state
                              ELSE sm_ev'.assigned)
              /\ sm'.last_vocal_ts = (IF sm_ev'.vocal THEN now ELSE sm.last_vocal_ts)
              /\ mouth' = MouthAfter(mouth, sm_ev'.vocal, sm'.last_vocal_ts, now)
              /\ eyes' = set_target_angle(eyes, sm_ev'.cmd.angle,
                                          sm_ev'.cmd.duration, now)]_vars

\* C30's case: a telemetry write other than the first has failed, and the
\* loop sleeps towards its next iteration.
C30_Witness ==
    /\ sm_ev.op = "tick"
    /\ sm_ev.write = "failed"
    /\ sm_ev.now >= StartTime + StatusWriteIntervalMs
    /\ sm.running
    /\ sm.wake = sm_ev.now + TickMs
    /\ now > sm_ev.now

\* C24 (as claimed): whenever state is SLEEP the eyes are fully closed, their
\* angle within 3 degrees of max_angle.
C24_AsleepEyesClosed ==
    sm.state = "SLEEP" => Abs(eyes.angle - eyes.max_angle) <= SleepToleranceDeg

-----------------------------------------------------------------------------
(* SpecSub: run() and stop() of the state machine, one subsystem call at a   *)
(* time; each call returns or raises.                                        *)

InitSub ==
    /\ now = StartTime
    /\ subs = SubInit
    /\ ParkedHalt
    /\ ParkedServo
    /\ ParkedDetector
    /\ ParkedJoints
    /\ ParkedBlinker
    /\ ParkedSM
    /\ ParkedLife

\* run(), line 133, and the entry of start_subsystems (line 134).
SubRun ==
    /\ subs.pc = "init"
    /\ sm' = [sm EXCEPT !.running = TRUE]
    /\ subs' = [subs EXCEPT !.pc = "starting", !.k = 1]
    /\ UNCHANGED <<now, sm_ev, mwk, ewk, servoVars, detVars, jointVars, blinkVars,
                   lifeVars, halt>>

\* start_subsystems, lines 78-91: the next start() call, which returns or
\* raises.  An error of a guarded call is logged; one of the others leaves
\* start_subsystems and run(), whose try block begins after it (line 137).
\* After the last call run() sets the state (line 135) and enters its loop.
SubStartCall ==
    /\ subs.pc = "starting"
    /\ \E ok \in BOOLEAN :
         LET name == StartOrder[subs.k]
             on   == ok \/ name \in StartGuarded
             done == on /\ subs.k = Len(StartOrder)
         IN  /\ subs' = [pc  |-> IF ~on THEN "failed"
                                 ELSE IF done THEN "running" ELSE "starting",
                         k   |-> IF on /\ ~done THEN subs.k + 1 ELSE 0,
                         log |-> Append(subs.log,
                                        [op |-> "start", name |-> name, ok |-> ok])]
             /\ sm' = IF done THEN [sm EXCEPT !.state = "RUNNING"] ELSE sm
    /\ UNCHANGED <<now, sm_ev, mwk, ewk, servoVars, detVars, jointVars, blinkVars,
                   lifeVars, halt>>

\* stop(), lines 186-188, called while run() is in its loop or after it has
\* failed: the running test, running = False, the entry of stop_subsystems.
SubStop ==
    /\ subs.pc \in {"running", "failed"}
    /\ sm.running
    /\ sm' = [sm EXCEPT !.running = FALSE]
    /\ subs' = [subs EXCEPT !.pc = "stopping", !.k = 1]
    /\ UNCHANGED <<now, sm_ev, mwk, ewk, servoVars, detVars, jointVars, blinkVars,
                   lifeVars, halt>>

\* stop_subsystems, lines 94-114: the next stop() call, which returns or
\* raises; every one sits in a try block that drops the error.
SubStopCall ==
    /\ subs.pc = "stopping"
    /\ \E ok \in BOOLEAN :
         subs' = [pc  |-> IF subs.k = Len(StopOrder) THEN "stopped" ELSE "stopping",
                  k   |-> IF subs.k = Len(StopOrder) THEN 0 ELSE subs.k + 1,
                  log |-> Append(subs.log,
                                 [op |-> "stop", name |-> StopOrder[subs.k], ok |-> ok])]
    /\ UNCHANGED <<now, smVars, servoVars, detVars, jointVars, blinkVars, lifeVars,
                   halt>>

NextSub == SubRun \/ SubStartCall \/ SubStop \/ SubStopCall

SpecSub == InitSub /\ [][NextSub]_vars

\* The subsystems on which op ("start" or "stop") has been called, in the order
\* of the calls.
Called(op) ==
    LET sel == SelectSeq(subs.log, LAMBDA e : e.op = op)
    IN  [i \in 1..Len(sel) |-> sel[i].name]

\* Sequence p begins sequence q.
IsPrefix(p, q) == Len(p) <= Len(q) /\ p = SubSeq(q, 1, Len(p))

\* Sequence q backwards.
Reverse(q) == [i \in 1..Len(q) |-> q[Len(q) + 1 - i]]

-----------------------------------------------------------------------------
(* SpecHalt: run() in its thread, stop() called from another thread, and the *)
(* blink scheduler's thread.  The loop of run() is two steps an iteration     *)
(* (the loop test, then the body); stop() is the steps of SpecSub, with the   *)
(* blinker's stop() in two (the flag, then the join).                         *)

\* Values of random.expovariate(...) at line 107 of blink_controller.py, in ms.
HaltWaits == {100, 1500}

\* The clock runs for HaltHorizonMs after the start; stop() is called within
\* HaltStopWindowMs of it.
HaltHorizonMs == 1800

HaltStopWindowMs == 120

InitHalt ==
    /\ now = StartTime
    /\ mouth = MouthInit
    /\ \E n \in EyesNeutrals : eyes = EyesInit(n)
    /\ halt = HaltInit
    /\ ParkedDetector
    /\ ParkedBlinker
    /\ ParkedSM
    /\ ParkedLife
    /\ ParkedSub
    /\ ParkedServo

\* run(), lines 133-134: running = True and start_subsystems(), which starts
\* the blink scheduler's thread (blink_controller.py, lines 42-46).
HaltRun ==
    /\ subs.pc = "init"
    /\ sm' = [sm EXCEPT !.running = TRUE]
    /\ subs' = [subs EXCEPT !.pc = "starting"]
    /\ \E w \in HaltWaits : blink' = BlinkStarted(w, now)
    /\ halt' = [halt EXCEPT !.blink_running = TRUE]
    /\ UNCHANGED <<now, mouth, eyes, detVars, blink_ev, high_ts, drop_ts, sm_ev, mwk, ewk,
                   servoVars, lifeVars>>

\* run(), lines 135-137: state = "RUNNING", and the loop is reached.
HaltEnterLoop ==
    /\ subs.pc = "starting"
    /\ sm' = [sm EXCEPT !.state = "RUNNING", !.wake = now]
    /\ subs' = [subs EXCEPT !.pc = "running"]
    /\ halt' = [halt EXCEPT !.tick = "sleep"]
    /\ UNCHANGED <<now, jointVars, detVars, blinkVars, sm_ev, mwk, ewk, servoVars, lifeVars>>

\* run(), line 138, after time.sleep(tick_s) has returned: the loop test.  When
\* it fails run() calls stop() (line 183), which returns at line 187.
HaltLoopTest ==
    /\ halt.tick = "sleep"
    /\ now >= sm.wake
    /\ halt' = [halt EXCEPT !.tick = IF sm.running THEN "body" ELSE "done"]
    /\ UNCHANGED <<now, jointVars, detVars, blinkVars, smVars, servoVars, lifeVars, subs>>

\* run(), lines 139-181: the body of an iteration, up to the sleep.
HaltLoopBody ==
    /\ halt.tick = "body"
    /\ \E raw \in SMFrames :
         LET d    == is_vocal(det, raw, now)
             loud == IF Candidate(d.info) THEN 1 ELSE 0
         IN  /\ loud = 1 => (sm_ev.loud < MaxLoudFrames /\ now <= StartTime + LoudWindowMs)
             /\ det' = d.det
             /\ \E ok \in IF StatusDue(sm.last_status_write_ts, now) THEN BOOLEAN ELSE {TRUE} :
                LET r == Tick(sm, mouth, eyes, d.vocal, d.info.vocalness, now)
                IN  /\ sm' = AfterWrite(sm, r.sm, now, WriteStatus(ok))
                    /\ mouth' = r.mouth
                    /\ eyes' = r.eyes
                    /\ sm_ev' = [sm_ev EXCEPT !.op = "tick", !.now = now, !.vocal = d.vocal,
                                              !.prev_state = sm.state,
                                              !.assigned = r.assigned,
                                              !.loud = sm_ev.loud + loud]
    /\ halt' = [halt EXCEPT !.tick = "sleep", !.tick_late = @ \/ halt.stop_ts # None]
    /\ UNCHANGED <<now, det_ev, blinkVars, mwk, ewk, servoVars, lifeVars, subs>>

\* stop() called from another thread while run() is in its loop.
HaltStop ==
    /\ now <= StartTime + HaltStopWindowMs
    /\ SubStop

\* stop_subsystems, line 96, and BlinkController.stop(), lines 49-51: the flag,
\* then the join is entered.
HaltBlinkerStop ==
    /\ subs.pc = "stopping"
    /\ subs.k = 1
    /\ halt.join = "none"
    /\ halt' = [halt EXCEPT !.blink_running = FALSE, !.join = "joining",
                            !.deadline = now + BlinkJoinTimeoutMs, !.stop_ts = now]
    /\ UNCHANGED <<now, jointVars, detVars, blinkVars, smVars, servoVars, lifeVars, subs>>

\* BlinkController.stop(), line 51: the join returns when the thread has exited
\* or the timeout has passed.
HaltBlinkerJoined ==
    /\ halt.join = "joining"
    /\ blink.pc = "exited" \/ now >= halt.deadline
    /\ halt' = [halt EXCEPT !.join = "done"]
    /\ subs' = [subs EXCEPT !.k = 2,
                            !.log = Append(@, [op |-> "stop", name |-> "blinker",
                                               ok |-> TRUE])]
    /\ UNCHANGED <<now, jointVars, detVars, blinkVars, smVars, servoVars, lifeVars>>

\* stop_subsystems, lines 99-114: the stop() calls after the blinker's, each
\* of which returns.
HaltStopCall ==
    /\ subs.k > 1
    /\ SubStopCall
    /\ subs'.log[Len(subs'.log)].ok

\* stop() has been called on subsystem name and has returned or raised.
StopCalled(name) ==
    \E i \in DOMAIN subs.log : subs.log[i].op = "stop" /\ subs.log[i].name = name

\* The blink scheduler, _loop line 105 after an iteration: the loop test, then
\* the next random wait w or the thread's end.
BlinkLoopTest(running, w, t) ==
    IF running THEN [pc |-> "wait", wake |-> t + w] ELSE [pc |-> "exited", wake |-> 0]

\* _loop, lines 108-114, when the sleep of line 108 has returned: the gate, and
\* when it allows, the close command and the sleep of _perform_blink (lines
\* 72-76); when it does not, the loop test.
HaltBlinkAttempt ==
    /\ blink.pc = "wait"
    /\ now >= blink.wake
    /\ LET lvl    == mouth_level(mouth)
           low_ts == LowTsAfter(blink.last_mouth_low_ts, lvl, now)
           ok     == can_blink_now(low_ts, now)
       IN  /\ \E w \in HaltWaits :
                 LET nxt == BlinkLoopTest(halt.blink_running, w, now)
                 IN  blink' = [last_mouth_low_ts |-> low_ts,
                               pc |-> IF ok THEN "blinking" ELSE nxt.pc,
                               wake |-> IF ok THEN now + BlinkDurationMs ELSE nxt.wake]
           /\ eyes' = IF ok THEN set_target_angle(eyes, eyes.min_angle, BlinkDurationMs, now)
                      ELSE eyes
           /\ halt' = [halt EXCEPT
                         !.blink_late = @ \/ (ok /\ StopCalled("blinker")),
                         !.blink_after_eyes = @ \/ (ok /\ StopCalled("eyes"))]
    /\ UNCHANGED <<now, mouth, blink_ev, high_ts, drop_ts, servoVars, detVars, smVars,
                   lifeVars, subs>>

\* _perform_blink, line 78, when the sleep of line 76 has returned: the open
\* command; then the loop test of _loop.
HaltBlinkOpen ==
    /\ blink.pc = "blinking"
    /\ now >= blink.wake
    /\ eyes' = set_target_angle(eyes, OpenAngle(eyes), BlinkOpenMs, now)
    /\ \E w \in HaltWaits :
         LET nxt == BlinkLoopTest(halt.blink_running, w, now)
         IN  blink' = [blink EXCEPT !.pc = nxt.pc, !.wake = nxt.wake]
    /\ halt' = [halt EXCEPT !.blink_late = @ \/ StopCalled("blinker"),
                            !.blink_after_eyes = @ \/ StopCalled("eyes")]
    /\ UNCHANGED <<now, mouth, blink_ev, high_ts, drop_ts, servoVars, detVars, smVars,
                   lifeVars, subs>>

\* The earliest time at which a sleeping thread wakes or the join gives up.
HaltNextWake ==
    LET far == StartTime + HaltHorizonMs + 1
        a   == IF halt.tick = "sleep" THEN sm.wake ELSE far
        b   == IF blink.pc \in {"wait", "blinking"} THEN blink.wake ELSE far
        c   == IF halt.join = "joining" THEN halt.deadline ELSE far
    IN  Min(a, Min(b, c))

\* Time passes until then.
HaltClock ==
    /\ subs.pc # "init"
    /\ now < HaltNextWake
    /\ HaltNextWake <= StartTime + HaltHorizonMs
    /\ now' = HaltNextWake
    /\ UNCHANGED <<jointVars, detVars, blinkVars, smVars, servoVars, lifeVars, subs, halt>>

NextHalt ==
    \/ HaltRun
    \/ HaltEnterLoop
    \/ HaltLoopTest
    \/ HaltLoopBody
    \/ HaltStop
    \/ HaltBlinkerStop
    \/ HaltBlinkerJoined
    \/ HaltStopCall
    \/ HaltBlinkAttempt
    \/ HaltBlinkOpen
    \/ HaltClock

SpecHalt == InitHalt /\ [][NextHalt]_vars

\* C21 (as claimed): the state label is INIT, RUNNING or SLEEP; it is INIT
\* until run() has completed start_subsystems and never afterwards; it changes
\* only from INIT to RUNNING at that point, or between RUNNING and SLEEP in the
\* body of an iteration of the loop of run(); and no step changes it once a
\* stop() call that found the machine running has returned.
C21_StateLabelLifecycle ==
    [][/\ sm.state \in {"INIT", "RUNNING", "SLEEP"}
       /\ sm.state = "INIT" <=> subs.pc \in {"init", "starting"}
       /\ sm'.state # sm.state =>
            \/ sm.state = "INIT" /\ sm'.state = "RUNNING" /\ subs.pc = "starting"
            \/ /\ halt.tick = "body"
               /\ {sm.state, sm'.state} = {"RUNNING", "SLEEP"}
       /\ subs.pc = "stopped" => sm'.state = sm.state]_vars

\* C26 (as claimed): when stop() is called from another thread, no iteration
\* of the loop of run() runs its body (which commands the eyes engine in every
\* case, the mouth engine in some, and may assign state) once stop_subsystems
\* has made its first call.
C26_NoTickAfterStopBegins == ~halt.tick_late

\* C27 (as claimed): the blink scheduler commands the eyes engine neither
\* after BlinkController.stop() has returned nor after stop_subsystems has
\* stopped the eyes engine, and its thread has ended once more than 1 s has
\* passed since the stop request.
C27_BlinkerQuietAfterStop ==
    /\ ~halt.blink_late
    /\ ~halt.blink_after_eyes
    /\ (halt.stop_ts # None /\ now > halt.stop_ts + 1000) => blink.pc = "exited"

=============================================================================
